---- MODULE Spec2Model ----
(***************************************************************************)
(* Quad MOD firmware (firmware/quad_MOD.ino): four LFO channels, twelve    *)
(* waveform kinds, FM/AM ring modulation, a 400 us sample scheduler and    *)
(* the encoder/button/EEPROM/OLED front end of loop().                     *)
(*                                                                         *)
(* Number representation.  The firmware computes in 32-bit floats; the     *)
(* model computes in fixed point with integer division truncating toward   *)
(* zero where a quotient is not exact:                                     *)
(*   phase accumulators   PhaseOne units per table index                   *)
(*   frequencies          FreqOne  units per Hz                            *)
(*   Random Slope values  ValueOne units per output step                   *)
(*   multipliers          MultOne  units per 1.0                           *)
(* A frequency that is a multiple of 0.01 Hz has an exact phase increment  *)
(* (0.01 Hz -> 16 units per tick); any other increment is truncated to the *)
(* phase unit.                                                             *)
(***************************************************************************)
EXTENDS Integers, Sequences, FiniteSets, TLC

\* ------------------------------------------------------------------------
\* Program constants
\* ------------------------------------------------------------------------
TABLE_SIZE == 256
UPDATE_INTERVAL_US == 400
UI_TIMEOUT_MS == 5000
NumChannels == 4
NumWaves == 12

Channels == 0 .. (NumChannels - 1)

\* Waveform kinds, as numbered in waveNames[].
Triangle == 0
Square == 1
Sine == 2
RandomSlope == 3
WonkyTri == 4
FMTri == 5
RatchetTri == 6
TriSine == 7
AMSine == 8
Swarm == 9
Pendulum == 10
Gravity == 11

\* ------------------------------------------------------------------------
\* Fixed-point scales of the float quantities
\* ------------------------------------------------------------------------
PhaseOne == 125 * 125
FreqOne == 100 * 100
ValueOne == 1000 * 1000
MultOne == 1000 * 1000

\* ------------------------------------------------------------------------
\* Integer helpers
\* ------------------------------------------------------------------------
Abs(x) == IF x < 0 THEN 0 - x ELSE x

Sgn(x) == IF x < 0 THEN 0 - 1 ELSE 1

\* C integer division and float-to-integer conversion truncate toward zero.
TruncDiv(a, b) == Sgn(a) * Sgn(b) * (Abs(a) \div Abs(b))

CeilDiv(a, b) == (a + b - 1) \div b

Min(a, b) == IF a < b THEN a ELSE b

Max(a, b) == IF a > b THEN a ELSE b

\* Arduino constrain(x, lo, hi).
constrain(x, lo, hi) == IF x < lo THEN lo ELSE IF x > hi THEN hi ELSE x

\* <<q, r>> with a * b = q * c + r and 0 <= r < c, for a, b >= 0 and c > 0,
\* computed by doubling so that no intermediate value leaves 32 bits.
RECURSIVE MulDivQR(_, _, _)
MulDivQR(a, b, c) ==
  IF b = 0 THEN <<0, 0>>
  ELSE LET h == MulDivQR(a, b \div 2, c)
           q2 == 2 * h[1] + ((2 * h[2]) \div c)
           r2 == (2 * h[2]) % c
       IN IF b % 2 = 0 THEN <<q2, r2>>
          ELSE <<q2 + (a \div c) + ((r2 + (a % c)) \div c), (r2 + (a % c)) % c>>

\* a * b / c truncated toward zero (c > 0).
MulDiv(a, b, c) == Sgn(a) * Sgn(b) * MulDivQR(Abs(a), Abs(b), c)[1]

\* ------------------------------------------------------------------------
\* Wave tables (PROGMEM), index 0..255 of the source is index 1..256 here
\* ------------------------------------------------------------------------
triangleWave ==
  << 0, 2, 4, 6, 8, 10, 12, 14, 16, 18, 20, 22, 24, 26, 28, 30,
     32, 34, 36, 38, 40, 42, 44, 46, 48, 50, 52, 54, 56, 58, 60, 62,
     64, 66, 68, 70, 72, 74, 76, 78, 80, 82, 84, 86, 88, 90, 92, 94,
     96, 98, 100, 102, 104, 106, 108, 110, 112, 114, 116, 118, 120, 122, 124, 126,
     128, 130, 132, 134, 136, 138, 140, 142, 144, 146, 148, 150, 152, 154, 156, 158,
     160, 162, 164, 166, 168, 170, 172, 174, 176, 178, 180, 182, 184, 186, 188, 190,
     192, 194, 196, 198, 200, 202, 204, 206, 208, 210, 212, 214, 216, 218, 220, 222,
     224, 226, 228, 230, 232, 234, 236, 238, 240, 242, 244, 246, 248, 250, 252, 254,
     255, 253, 251, 249, 247, 245, 243, 241, 239, 237, 235, 233, 231, 229, 227, 225,
     223, 221, 219, 217, 215, 213, 211, 209, 207, 205, 203, 201, 199, 197, 195, 193,
     191, 189, 187, 185, 183, 181, 179, 177, 175, 173, 171, 169, 167, 165, 163, 161,
     159, 157, 155, 153, 151, 149, 147, 145, 143, 141, 139, 137, 135, 133, 131, 129,
     127, 125, 123, 121, 119, 117, 115, 113, 111, 109, 107, 105, 103, 101, 99, 97,
     95, 93, 91, 89, 87, 85, 83, 81, 79, 77, 75, 73, 71, 69, 67, 65,
     63, 61, 59, 57, 55, 53, 51, 49, 47, 45, 43, 41, 39, 37, 35, 33,
     31, 29, 27, 25, 23, 21, 19, 17, 15, 13, 11, 9, 7, 5, 3, 1 >>

squareWave ==
  << 0, 0, 0, 0, 0, 0, 0, 0, 0, 0, 0, 0, 0, 0, 0, 0,
     0, 0, 0, 0, 0, 0, 0, 0, 0, 0, 0, 0, 0, 0, 0, 0,
     0, 0, 0, 0, 0, 0, 0, 0, 0, 0, 0, 0, 0, 0, 0, 0,
     0, 0, 0, 0, 0, 0, 0, 0, 0, 0, 0, 0, 0, 0, 0, 0,
     0, 0, 0, 0, 0, 0, 0, 0, 0, 0, 0, 0, 0, 0, 0, 0,
     0, 0, 0, 0, 0, 0, 0, 0, 0, 0, 0, 0, 0, 0, 0, 0,
     0, 0, 0, 0, 0, 0, 0, 0, 0, 0, 0, 0, 0, 0, 0, 0,
     0, 0, 0, 0, 0, 0, 0, 0, 0, 0, 0, 0, 0, 0, 0, 0,
     255, 255, 255, 255, 255, 255, 255, 255, 255, 255, 255, 255, 255, 255, 255, 255,
     255, 255, 255, 255, 255, 255, 255, 255, 255, 255, 255, 255, 255, 255, 255, 255,
     255, 255, 255, 255, 255, 255, 255, 255, 255, 255, 255, 255, 255, 255, 255, 255,
     255, 255, 255, 255, 255, 255, 255, 255, 255, 255, 255, 255, 255, 255, 255, 255,
     255, 255, 255, 255, 255, 255, 255, 255, 255, 255, 255, 255, 255, 255, 255, 255,
     255, 255, 255, 255, 255, 255, 255, 255, 255, 255, 255, 255, 255, 255, 255, 255,
     255, 255, 255, 255, 255, 255, 255, 255, 255, 255, 255, 255, 255, 255, 255, 255,
     255, 255, 255, 255, 255, 255, 255, 255, 255, 255, 255, 255, 255, 255, 255, 255 >>

sineWave ==
  << 127, 130, 133, 136, 139, 142, 145, 148, 151, 154, 157, 160, 163, 166, 169, 172,
     175, 178, 180, 183, 186, 189, 192, 194, 197, 200, 202, 205, 207, 210, 212, 215,
     217, 219, 222, 224, 226, 228, 230, 232, 234, 236, 237, 239, 240, 242, 243, 245,
     246, 247, 248, 249, 250, 251, 252, 252, 253, 253, 254, 254, 254, 254, 254, 254,
     255, 254, 254, 254, 254, 254, 254, 253, 253, 252, 252, 251, 250, 249, 248, 247,
     246, 245, 243, 242, 240, 239, 237, 236, 234, 232, 230, 228, 226, 224, 222, 219,
     217, 215, 212, 210, 207, 205, 202, 200, 197, 194, 192, 189, 186, 183, 180, 178,
     175, 172, 169, 166, 163, 160, 157, 154, 151, 148, 145, 142, 139, 136, 133, 130,
     127, 124, 121, 118, 115, 112, 109, 106, 103, 100, 97, 94, 91, 88, 85, 82,
     79, 76, 74, 71, 68, 65, 62, 60, 57, 54, 52, 49, 47, 44, 42, 39,
     37, 35, 32, 30, 28, 26, 24, 22, 20, 18, 17, 15, 14, 12, 11, 9,
     8, 7, 6, 5, 4, 3, 2, 2, 1, 1, 0, 0, 0, 0, 0, 0,
     0, 0, 0, 0, 0, 0, 0, 1, 1, 2, 2, 3, 4, 5, 6, 7,
     8, 9, 11, 12, 14, 15, 17, 18, 20, 22, 24, 26, 28, 30, 32, 35,
     37, 39, 42, 44, 47, 49, 52, 54, 57, 60, 62, 65, 68, 71, 74, 76,
     79, 82, 85, 88, 91, 94, 97, 100, 103, 106, 109, 112, 115, 118, 121, 124 >>

\* ------------------------------------------------------------------------
\* readFrequency: 10-bit pot reading -> Hz.  potHz[r + 1] is
\* 0.05f * powf(20.0f / 0.05f, r / 1023.0f) evaluated in 32-bit floats and
\* truncated to FreqOne units, for every reading r in 0..1023.
\* ------------------------------------------------------------------------
potHz ==
  << 500, 502, 505, 508, 511, 514, 517, 520, 523, 527, 530, 533, 536, 539, 542, 545,
     549, 552, 555, 558, 562, 565, 568, 572, 575, 578, 582, 585, 589, 592, 596, 599,
     603, 606, 610, 613, 617, 620, 624, 628, 631, 635, 639, 643, 646, 650, 654, 658,
     662, 666, 670, 674, 678, 681, 685, 690, 694, 698, 702, 706, 710, 714, 718, 723,
     727, 731, 735, 740, 744, 748, 753, 757, 762, 766, 771, 775, 780, 784, 789, 794,
     798, 803, 808, 812, 817, 822, 827, 832, 837, 842, 847, 851, 856, 862, 867, 872,
     877, 882, 887, 892, 898, 903, 908, 914, 919, 924, 930, 935, 941, 946, 952, 957,
     963, 969, 974, 980, 986, 992, 997, 1003, 1009, 1015, 1021, 1027, 1033, 1039, 1045, 1051,
     1058, 1064, 1070, 1076, 1083, 1089, 1095, 1102, 1108, 1115, 1121, 1128, 1135, 1141, 1148, 1155,
     1162, 1168, 1175, 1182, 1189, 1196, 1203, 1210, 1217, 1224, 1232, 1239, 1246, 1254, 1261, 1268,
     1276, 1283, 1291, 1298, 1306, 1314, 1321, 1329, 1337, 1345, 1353, 1361, 1369, 1377, 1385, 1393,
     1401, 1409, 1418, 1426, 1434, 1443, 1451, 1460, 1468, 1477, 1486, 1494, 1503, 1512, 1521, 1530,
     1539, 1548, 1557, 1566, 1575, 1585, 1594, 1603, 1613, 1622, 1632, 1641, 1651, 1661, 1670, 1680,
     1690, 1700, 1710, 1720, 1730, 1740, 1751, 1761, 1771, 1782, 1792, 1803, 1813, 1824, 1835, 1845,
     1856, 1867, 1878, 1889, 1900, 1911, 1923, 1934, 1945, 1957, 1968, 1980, 1991, 2003, 2015, 2027,
     2039, 2051, 2063, 2075, 2087, 2099, 2111, 2124, 2136, 2149, 2162, 2174, 2187, 2200, 2213, 2226,
     2239, 2252, 2265, 2279, 2292, 2305, 2319, 2333, 2346, 2360, 2374, 2388, 2402, 2416, 2430, 2444,
     2459, 2473, 2488, 2502, 2517, 2532, 2547, 2562, 2577, 2592, 2607, 2622, 2638, 2653, 2669, 2685,
     2700, 2716, 2732, 2748, 2764, 2781, 2797, 2813, 2830, 2847, 2863, 2880, 2897, 2914, 2931, 2948,
     2966, 2983, 3001, 3018, 3036, 3054, 3072, 3090, 3108, 3126, 3145, 3163, 3182, 3200, 3219, 3238,
     3257, 3276, 3296, 3315, 3334, 3354, 3374, 3394, 3413, 3434, 3454, 3474, 3494, 3515, 3536, 3556,
     3577, 3598, 3619, 3641, 3662, 3684, 3705, 3727, 3749, 3771, 3793, 3815, 3838, 3860, 3883, 3906,
     3929, 3952, 3975, 3998, 4022, 4045, 4069, 4093, 4117, 4141, 4166, 4190, 4215, 4240, 4264, 4289,
     4315, 4340, 4366, 4391, 4417, 4443, 4469, 4495, 4522, 4548, 4575, 4602, 4629, 4656, 4683, 4711,
     4739, 4766, 4794, 4823, 4851, 4879, 4908, 4937, 4966, 4995, 5024, 5054, 5084, 5114, 5144, 5174,
     5204, 5235, 5265, 5296, 5328, 5359, 5390, 5422, 5454, 5486, 5518, 5551, 5583, 5616, 5649, 5682,
     5715, 5749, 5783, 5817, 5851, 5885, 5920, 5955, 5990, 6025, 6060, 6096, 6132, 6168, 6204, 6240,
     6277, 6314, 6351, 6388, 6426, 6464, 6502, 6540, 6578, 6617, 6656, 6695, 6734, 6774, 6813, 6853,
     6894, 6934, 6975, 7016, 7057, 7099, 7140, 7182, 7224, 7267, 7310, 7352, 7396, 7439, 7483, 7527,
     7571, 7615, 7660, 7705, 7750, 7796, 7842, 7888, 7934, 7981, 8028, 8075, 8122, 8170, 8218, 8266,
     8315, 8364, 8413, 8462, 8512, 8562, 8612, 8663, 8714, 8765, 8816, 8868, 8920, 8973, 9025, 9078,
     9132, 9185, 9239, 9294, 9348, 9403, 9458, 9514, 9570, 9626, 9683, 9739, 9797, 9854, 9912, 9970,
     10029, 10088, 10147, 10207, 10267, 10327, 10388, 10449, 10510, 10572, 10634, 10696, 10759, 10822, 10886, 10950,
     11014, 11079, 11144, 11209, 11275, 11341, 11408, 11475, 11542, 11610, 11678, 11747, 11816, 11885, 11955, 12026,
     12096, 12167, 12239, 12311, 12383, 12456, 12529, 12602, 12676, 12751, 12826, 12901, 12977, 13053, 13130, 13207,
     13285, 13363, 13441, 13520, 13599, 13679, 13760, 13841, 13922, 14004, 14086, 14169, 14252, 14336, 14420, 14504,
     14590, 14675, 14762, 14848, 14935, 15023, 15111, 15200, 15290, 15379, 15470, 15561, 15652, 15744, 15836, 15929,
     16023, 16117, 16212, 16307, 16403, 16499, 16596, 16694, 16792, 16890, 16989, 17089, 17190, 17291, 17392, 17494,
     17597, 17700, 17804, 17909, 18014, 18120, 18226, 18334, 18441, 18550, 18659, 18768, 18878, 18989, 19101, 19213,
     19326, 19439, 19554, 19668, 19784, 19900, 20017, 20135, 20253, 20372, 20492, 20612, 20733, 20855, 20977, 21101,
     21224, 21349, 21475, 21601, 21728, 21855, 21984, 22113, 22243, 22373, 22505, 22637, 22770, 22904, 23038, 23173,
     23310, 23447, 23584, 23723, 23862, 24002, 24143, 24285, 24428, 24571, 24716, 24861, 25007, 25154, 25301, 25450,
     25600, 25750, 25901, 26053, 26206, 26360, 26515, 26671, 26828, 26985, 27144, 27303, 27464, 27625, 27787, 27950,
     28114, 28280, 28446, 28613, 28781, 28950, 29120, 29291, 29463, 29636, 29810, 29985, 30162, 30339, 30517, 30696,
     30876, 31058, 31240, 31424, 31608, 31794, 31981, 32169, 32358, 32548, 32739, 32931, 33125, 33319, 33515, 33712,
     33910, 34109, 34309, 34511, 34714, 34918, 35123, 35329, 35536, 35745, 35955, 36166, 36379, 36593, 36807, 37024,
     37241, 37460, 37680, 37901, 38124, 38348, 38573, 38800, 39028, 39257, 39487, 39719, 39953, 40187, 40423, 40661,
     40900, 41140, 41382, 41625, 41869, 42115, 42363, 42611, 42862, 43113, 43367, 43621, 43878, 44135, 44395, 44655,
     44918, 45182, 45447, 45714, 45982, 46253, 46524, 46798, 47072, 47349, 47627, 47907, 48188, 48471, 48756, 49042,
     49330, 49620, 49912, 50205, 50500, 50796, 51095, 51395, 51697, 52000, 52306, 52613, 52922, 53233, 53546, 53860,
     54177, 54495, 54815, 55137, 55461, 55787, 56114, 56444, 56776, 57109, 57444, 57782, 58121, 58463, 58806, 59152,
     59499, 59849, 60200, 60554, 60909, 61267, 61627, 61989, 62353, 62719, 63088, 63458, 63831, 64206, 64583, 64963,
     65344, 65728, 66114, 66502, 66893, 67286, 67681, 68079, 68479, 68881, 69286, 69693, 70102, 70514, 70928, 71345,
     71764, 72185, 72609, 73036, 73465, 73896, 74330, 74767, 75206, 75648, 76092, 76539, 76989, 77441, 77896, 78353,
     78814, 79277, 79742, 80211, 80682, 81156, 81632, 82112, 82594, 83079, 83567, 84058, 84552, 85049, 85548, 86051,
     86556, 87065, 87576, 88091, 88608, 89128, 89652, 90179, 90708, 91241, 91777, 92316, 92858, 93404, 93953, 94504,
     95060, 95618, 96180, 96745, 97313, 97884, 98459, 99038, 99620, 100205, 100793, 101385, 101981, 102580, 103182, 103789,
     104398, 105011, 105628, 106249, 106873, 107501, 108132, 108767, 109406, 110049, 110695, 111345, 111999, 112657, 113319, 113985,
     114654, 115328, 116005, 116687, 117372, 118061, 118755, 119452, 120154, 120860, 121570, 122284, 123002, 123725, 124451, 125183,
     125918, 126657, 127401, 128150, 128903, 129660, 130421, 131187, 131958, 132733, 133513, 134297, 135086, 135879, 136678, 137480,
     138288, 139100, 139917, 140739, 141566, 142397, 143234, 144075, 144921, 145773, 146629, 147490, 148357, 149228, 150105, 150986,
     151873, 152765, 153663, 154565, 155473, 156386, 157305, 158229, 159158, 160093, 161034, 161980, 162931, 163888, 164851, 165819,
     166793, 167773, 168758, 169750, 170747, 171750, 172759, 173773, 174794, 175821, 176854, 177893, 178937, 179989, 181046, 182109,
     183179, 184255, 185337, 186426, 187521, 188622, 189730, 190845, 191966, 193093, 194228, 195369, 196516, 197670, 198832, 200000 >>

\* Variant: the reading cut to its low eight bits.
readFrequencyOfByte(rawVal) == potHz[(rawVal % 256) + 1]

readFrequency(rawVal) == potHz[rawVal + 1]

\* Frequencies written as hundredths of a Hz / multipliers as thousandths.
CentiHz(n) == (n * FreqOne) \div 100

Milli(n) == (n * MultOne) \div 1000

\* ------------------------------------------------------------------------
\* Float -> uint16_t conversion of a phase accumulator.  The conversion
\* truncates toward zero; when the truncated value is not in 0..65535 the
\* conversion is undefined, and the model lets the pass pick one of the
\* results a build produces: the low 16 bits of the integer, the nearest
\* representable value, or zero.
\* ------------------------------------------------------------------------
CastOutcomes == {"wrap", "saturate", "zero"}

CastU16(phaseIndex, ub) ==
  LET t == TruncDiv(phaseIndex, PhaseOne)
  IN IF t >= 0 /\ t <= 65535 THEN t
     ELSE IF ub = "wrap" THEN t % 65536
     ELSE IF ub = "saturate" THEN (IF t < 0 THEN 0 ELSE 65535)
     ELSE 0

\* uint16_t tableIndex = ((uint16_t)phaseIndex) % TABLE_SIZE
TableIndex(phaseIndex, ub) == CastU16(phaseIndex, ub) % TABLE_SIZE

getWaveValue(wave, phaseIndex, ub) ==
  LET tableIndex == TableIndex(phaseIndex, ub)
  IN CASE wave = 0 -> triangleWave[tableIndex + 1]
       [] wave = 1 -> squareWave[tableIndex + 1]
       [] wave = 2 -> sineWave[tableIndex + 1]
       [] OTHER -> 0

\* ------------------------------------------------------------------------
\* updateLFO: phaseIndex += freq * (TABLE_SIZE / sampleRate), no wrap.
\* One Hz of frequency is IncNum / IncDen phase units per tick.
\* ------------------------------------------------------------------------
SampleRate == 1000000 \div UPDATE_INTERVAL_US

IncNum == (TABLE_SIZE * PhaseOne) \div 1000000

IncDen == (SampleRate * FreqOne) \div 1000000

Increment(freq) == TruncDiv(freq * IncNum, IncDen)

updateLFO(phaseIndex, freq) == phaseIndex + Increment(freq)

\* ------------------------------------------------------------------------
\* One channel's draws from random() in a pass.  A draw the pass does not
\* make is 0.
\* ------------------------------------------------------------------------
NoDraw ==
  [ slopeTarget |-> 0,
    wJitSel |-> 0, wJitter |-> 0, wHoldSel |-> 0, wHoldLong |-> 0,
    wHoldShort |-> 0, wDriftSel |-> 0, wDrift |-> 0, wGlitch |-> 0,
    wNudge |-> 0,
    rBurst |-> 0, rFast |-> 0, rMax |-> 0, rLong |-> 0, rShort |-> 0,
    rStutSel |-> 0, rStut |-> 0,
    gSel |-> 0, gMult |-> 0 ]

\* ------------------------------------------------------------------------
\* Random Slope
\* ------------------------------------------------------------------------
\* currentMillis - previousMillis >= 1000.0 / frequency, both sides >= 0:
\* an integer is >= a real exactly when it is >= the real's ceiling.
SlopeDue(rs, frequency, currentMillis) ==
  (currentMillis - rs.previousMillis) >= CeilDiv(1000 * FreqOne, frequency)

\* slopeStep = (targetValue - currentValue) / (1000.0 / frequency)
SlopeStep(targetValue, currentValue, frequency) ==
  MulDiv(targetValue - currentValue, frequency, 1000 * FreqOne)

SlopeRetarget(rs, frequency, currentMillis, d) ==
  IF SlopeDue(rs, frequency, currentMillis)
  THEN [rs EXCEPT !.previousMillis = currentMillis,
                  !.targetValue = d.slopeTarget * ValueOne,
                  !.slopeStep = SlopeStep(d.slopeTarget * ValueOne,
                                          rs.currentValue, frequency)]
  ELSE rs

\* SlopeReached with line 728 (the arrival test of a falling ramp) left out.
SlopeReachedRising(rs, cv) == rs.slopeStep > 0 /\ cv >= rs.targetValue

SlopeReached(rs, cv) ==
  \/ rs.slopeStep > 0 /\ cv >= rs.targetValue
  \/ rs.slopeStep < 0 /\ cv <= rs.targetValue

\* SlopeAdvance with lines 727-730 (the arrival test) left out.
SlopeAdvanceUnclamped(rs) ==
  [rs EXCEPT !.currentValue = rs.currentValue + rs.slopeStep]

SlopeAdvance(rs) ==
  LET cv == rs.currentValue + rs.slopeStep
  IN [rs EXCEPT !.currentValue = IF SlopeReached(rs, cv) THEN rs.targetValue ELSE cv]

updateRandomSlope(e, channel, frequency, currentMillis, d) ==
  LET rs == e.randomSlope[channel]
      due == SlopeDue(rs, frequency, currentMillis)
  IN [e EXCEPT !.randomSlope[channel] =
                  SlopeAdvance(SlopeRetarget(rs, frequency, currentMillis, d)),
               !.rampStart[channel] = IF due THEN rs.currentValue ELSE @,
               !.rampCut[channel] =
                  IF due THEN rs.currentValue # rs.targetValue ELSE @]

\* ------------------------------------------------------------------------
\* Wonky Triangle
\* ------------------------------------------------------------------------
WonkyHoldDue(w) == ((w.holdCounter + 1) % 65536) >= w.holdDuration

\* WonkyMultiplier with line 783 (the constrain) left out.
WonkyMultiplierUnclamped(baseFreq, d) ==
  LET freqNorm == constrain(MulDiv(baseFreq - CentiHz(5), MultOne,
                                   CentiHz(2000) - CentiHz(5)),
                            0, MultOne)
      driftScale == MultOne - TruncDiv(freqNorm * 3, 10)
      rangeRaw == Milli(50) + MulDiv(baseFreq, Milli(20), FreqOne)
      driftRangeBase == MulDiv(constrain(rangeRaw, Milli(30), Milli(500)),
                               driftScale, MultOne)
      gentle == MultOne + TruncDiv((d.wDrift - 100) * driftRangeBase, 100)
      glitchRange == Milli(400) + TruncDiv(6 * driftScale, 10)
      glitch == glitchRange + d.wGlitch * (MultOne \div 100)
  IN IF d.wDriftSel < 70 THEN gentle ELSE glitch

WonkyMultiplier(baseFreq, d) ==
  LET freqNorm == constrain(MulDiv(baseFreq - CentiHz(5), MultOne,
                                   CentiHz(2000) - CentiHz(5)),
                            0, MultOne)
      driftScale == MultOne - TruncDiv(freqNorm * 3, 10)
      rangeRaw == Milli(50) + MulDiv(baseFreq, Milli(20), FreqOne)
      driftRangeBase == MulDiv(constrain(rangeRaw, Milli(30), Milli(500)),
                               driftScale, MultOne)
      gentle == MultOne + TruncDiv((d.wDrift - 100) * driftRangeBase, 100)
      glitchRange == Milli(400) + TruncDiv(6 * driftScale, 10)
      glitch == glitchRange + d.wGlitch * (MultOne \div 100)
  IN constrain(IF d.wDriftSel < 70 THEN gentle ELSE glitch, Milli(600), Milli(1600))

updateWonkyTri(e, channel, baseFreq, d) ==
  LET w == e.wonkyTri[channel]
      due == WonkyHoldDue(w)
      jitter == IF d.wJitSel < 5 THEN TruncDiv(d.wJitter * PhaseOne, 1000) ELSE 0
      w1 == IF due
            THEN [ holdCounter |-> 0,
                   holdDuration |-> IF d.wHoldSel < 80 THEN 200 + d.wHoldLong
                                    ELSE 10 + d.wHoldShort,
                   freqMultiplier |-> WonkyMultiplier(baseFreq, d) ]
            ELSE [w EXCEPT !.holdCounter = (@ + 1) % 65536]
      adjustedFreq == MulDiv(baseFreq, w1.freqMultiplier, MultOne)
      nudge == IF w1.freqMultiplier > Milli(1250) /\ d.wNudge < 20
               THEN MulDiv((w1.freqMultiplier - MultOne) * 2, PhaseOne, MultOne)
               ELSE 0
  IN [e EXCEPT !.wonkyTri[channel] = w1,
               !.lfoIndex[channel] = updateLFO(@ + jitter + nudge, adjustedFreq)]

\* ------------------------------------------------------------------------
\* Cross-modulation source and sample
\* ------------------------------------------------------------------------
\* The ring read the other way round.
FMModSourceNext(channel) == (channel + 1) % 4

FMModSource(channel) == (channel + 3) % 4

AMModSource(channel) == (channel + 3) % 4

\* (uint8_t)randomSlope[modSource].currentValue
SlopeByte(rs) == TruncDiv(rs.currentValue, ValueOne) % 256

\* Variant: the source's kind handed to getWaveValue as it is.
FMModValueOwnKind(e, channel, ub) ==
  LET modSource == FMModSource(channel)
  IN IF e.waveType[modSource] = 3
     THEN SlopeByte(e.randomSlope[modSource])
     ELSE getWaveValue(e.waveType[modSource], e.lfoIndex[modSource], ub)

FMModValue(e, channel, ub) ==
  LET modSource == FMModSource(channel)
  IN IF e.waveType[modSource] = 3
     THEN SlopeByte(e.randomSlope[modSource])
     ELSE getWaveValue(IF e.waveType[modSource] >= 4 THEN 0 ELSE e.waveType[modSource],
                       e.lfoIndex[modSource], ub)

AMModValue(e, channel, ub) ==
  LET modSource == AMModSource(channel)
  IN IF e.waveType[modSource] = 3
     THEN SlopeByte(e.randomSlope[modSource])
     ELSE getWaveValue(IF e.waveType[modSource] >= 4 THEN 0 ELSE e.waveType[modSource],
                       e.lfoIndex[modSource], ub)

\* ------------------------------------------------------------------------
\* FM
\* ------------------------------------------------------------------------
\* modNorm = (modValue - 127.5) / 127.5; fmDeviation = modNorm * 20.0
FMDeviation(modValue) == TruncDiv((2 * modValue - 255) * CentiHz(2000), 255)

\* FMFreq with line 827 (the constrain) left out.
FMFreqUnclamped(baseFreq, modValue) == baseFreq + FMDeviation(modValue)

FMFreq(baseFreq, modValue) ==
  constrain(baseFreq + FMDeviation(modValue), CentiHz(1), CentiHz(2500))

\* Variant: an update that also restarts the phase of its modulation source.
updateFMTriSyncsSource(e, channel, baseFreq, ub) ==
  LET fmFreq == FMFreq(baseFreq, FMModValue(e, channel, ub))
  IN [e EXCEPT !.lfoIndex[channel] = updateLFO(@, fmFreq),
               !.lfoIndex[FMModSource(channel)] = 0,
               !.fmFreq[channel] = fmFreq,
               !.fmSource[channel] = FMModSource(channel)]

updateFMTri(e, channel, baseFreq, ub) ==
  LET fmFreq == FMFreq(baseFreq, FMModValue(e, channel, ub))
  IN [e EXCEPT !.lfoIndex[channel] = updateLFO(@, fmFreq),
               !.fmFreq[channel] = fmFreq,
               !.fmSource[channel] = FMModSource(channel)]

\* ------------------------------------------------------------------------
\* Ratchet Triangle
\* ------------------------------------------------------------------------
RatchetPauseEnds(r) == ((r.pauseCounter + 1) % 65536) >= r.pauseDuration

\* RatchetBurstEnds with > for the >= of line 866.
RatchetBurstEndsLate(r) == ((r.ratchetCounter + 1) % 65536) > r.burstDuration

RatchetBurstEnds(r) == ((r.ratchetCounter + 1) % 65536) >= r.burstDuration

\* 2.0f + random(600) / 100.0f
FastFreqMultiplier(draw) == Milli(2000) + draw * (MultOne \div 100)

\* Variant: the burst after a pause drawn from the range setup() uses,
\* 50 + random(100).
RatchetPauseTickSetupRange(r, d) ==
  IF RatchetPauseEnds(r)
  THEN [r EXCEPT !.inPause = FALSE,
                 !.pauseCounter = 0,
                 !.ratchetCounter = 0,
                 !.burstCount = (@ + 1) % 256,
                 !.burstDuration = 50 + d.rBurst,
                 !.fastFreqMultiplier = FastFreqMultiplier(d.rFast)]
  ELSE [r EXCEPT !.pauseCounter = (@ + 1) % 65536]

RatchetPauseTick(r, d) ==
  IF RatchetPauseEnds(r)
  THEN [r EXCEPT !.inPause = FALSE,
                 !.pauseCounter = 0,
                 !.ratchetCounter = 0,
                 !.burstCount = (@ + 1) % 256,
                 !.burstDuration = 30 + d.rBurst,
                 !.fastFreqMultiplier = FastFreqMultiplier(d.rFast)]
  ELSE [r EXCEPT !.pauseCounter = (@ + 1) % 65536]

RatchetBurstTick(r, d) ==
  IF RatchetBurstEnds(r)
  THEN LET long == r.burstCount >= r.maxBursts
           pause == IF long THEN 200 + d.rLong ELSE 50 + d.rShort
       IN [r EXCEPT !.burstCount = IF long THEN 0 ELSE @,
                    !.maxBursts = IF long THEN 2 + d.rMax ELSE @,
                    !.inPause = TRUE,
                    !.ratchetCounter = 0,
                    !.pauseCounter = 0,
                    !.pauseDuration = IF d.rStutSel < 10 THEN 10 + d.rStut ELSE pause,
                    !.burstsDone = IF long THEN 0 ELSE @ + 1,
                    !.afterLong = IF long THEN TRUE ELSE @]
  ELSE [r EXCEPT !.ratchetCounter = (@ + 1) % 65536]

\* updateRatchetTri with the return of line 855 taken only while the pause
\* lasts: the tick that ends a pause goes on into the burst code.
updateRatchetTriFallThrough(e, channel, baseFreq, d) ==
  LET r == e.ratchetTri[channel]
      p == RatchetPauseTick(r, d)
  IN IF r.inPause /\ p.inPause
     THEN [e EXCEPT !.ratchetTri[channel] = p]
     ELSE [e EXCEPT !.ratchetTri[channel] = RatchetBurstTick(IF r.inPause THEN p ELSE r, d),
                    !.lfoIndex[channel] =
                       updateLFO(@, MulDiv(baseFreq, r.fastFreqMultiplier, MultOne))]

updateRatchetTri(e, channel, baseFreq, d) ==
  LET r == e.ratchetTri[channel]
  IN IF r.inPause
     THEN [e EXCEPT !.ratchetTri[channel] = RatchetPauseTick(r, d)]
     ELSE [e EXCEPT !.ratchetTri[channel] = RatchetBurstTick(r, d),
                    !.lfoIndex[channel] =
                       updateLFO(@, MulDiv(baseFreq, r.fastFreqMultiplier, MultOne))]

\* ------------------------------------------------------------------------
\* TriSine, AM Sine, Swarm, Pendulum updates
\* ------------------------------------------------------------------------
updateTriSine(e, channel, baseFreq) ==
  [e EXCEPT !.lfoIndex[channel] = updateLFO(@, baseFreq),
            !.sineIndex[channel] =
               updateLFO(@, MulDiv(baseFreq, e.chosenRatio[channel], MultOne))]

updateAMSine(e, channel, baseFreq) ==
  [e EXCEPT !.lfoIndex[channel] = updateLFO(@, baseFreq)]

updateSwarm(e, channel, baseFreq) ==
  [e EXCEPT !.lfoIndex[channel] = updateLFO(@, baseFreq),
            !.swarmBreathIndex[channel] = updateLFO(@, CentiHz(25)),
            !.swarmTriIndex1[channel] = updateLFO(@, baseFreq * 8),
            !.swarmTriIndex2[channel] = updateLFO(@, baseFreq * 11),
            !.swarmTriIndex3[channel] = updateLFO(@, baseFreq * 7)]

\* Variant: oscillator B run at baseFreq, without the detuneRatio of line 1045.
updatePendulumInUnison(e, channel, baseFreq) ==
  [e EXCEPT !.pendulumOscA[channel] = updateLFO(@, baseFreq),
            !.pendulumOscB[channel] = updateLFO(@, baseFreq)]

\* Variant: the primary phase advanced along with oscillator A.
updatePendulumAdvancesPhase(e, channel, baseFreq) ==
  [e EXCEPT !.lfoIndex[channel] = updateLFO(@, baseFreq),
            !.pendulumOscA[channel] = updateLFO(@, baseFreq),
            !.pendulumOscB[channel] = updateLFO(@, TruncDiv(baseFreq * 95, 100))]

updatePendulum(e, channel, baseFreq) ==
  [e EXCEPT !.pendulumOscA[channel] = updateLFO(@, baseFreq),
            !.pendulumOscB[channel] = updateLFO(@, TruncDiv(baseFreq * 95, 100))]

\* ------------------------------------------------------------------------
\* Gravity / elastic band
\* ------------------------------------------------------------------------
\* baseFreq * (0.1 + (random(0, 1000) / 1000.0) * (5.0 - 0.1))
GravityTarget(baseFreq, draw) == MulDiv(baseFreq, 1000 + 49 * draw, 10000)

\* GravityClamp with line 1106 (the lower bound) left out.
GravityClampHighOnly(freq, baseFreq) ==
  IF freq > baseFreq * 5 THEN baseFreq * 5 ELSE freq

GravityClamp(freq, baseFreq) ==
  LET hi == IF freq > baseFreq * 5 THEN baseFreq * 5 ELSE freq
  IN IF hi < TruncDiv(baseFreq, 10) THEN TruncDiv(baseFreq, 10) ELSE hi

GravityStep(gw, baseFreq, d) ==
  LET momentum == IF d.gSel < 4 THEN GravityTarget(baseFreq, d.gMult) ELSE gw.momentum
      pulled == gw.currentFreq + TruncDiv((momentum - gw.currentFreq) * 18, 100)
  IN [gw EXCEPT !.momentum = momentum,
                !.currentFreq = GravityClamp(pulled, baseFreq)]

updateGravityWells(e, channel, baseFreq, d) ==
  LET gw == GravityStep(e.gravityWells[channel], baseFreq, d)
  IN [e EXCEPT !.gravityWells[channel] = gw,
               !.lfoIndex[channel] = updateLFO(@, gw.currentFreq)]

\* ------------------------------------------------------------------------
\* Output computations
\* ------------------------------------------------------------------------
Bipolar2(sample) == 2 * sample - 255

\* Variant: the halving of line 922 rounded down instead of toward zero.
getTriSineValueFloorDiv(e, channel, ub) ==
  LET triValue == triangleWave[TableIndex(e.lfoIndex[channel], ub) + 1]
      sinValue == sineWave[TableIndex(e.sineIndex[channel], ub) + 1]
      triSigned == triValue - 127
      sinSigned == sinValue - 127
      result == triSigned - (sinSigned \div 2)
  IN (constrain(result, 0 - 127, 127) + 127) % 256

getTriSineValue(e, channel, ub) ==
  LET triValue == triangleWave[TableIndex(e.lfoIndex[channel], ub) + 1]
      sinValue == sineWave[TableIndex(e.sineIndex[channel], ub) + 1]
      triSigned == triValue - 127
      sinSigned == sinValue - 127
      result == triSigned - TruncDiv(sinSigned, 2)
  IN (constrain(result, 0 - 127, 127) + 127) % 256

\* carrier * (1 + modulator), clamped to [-1, 1], times 127.5 plus 127.5, with
\* carrier = c2 / 255 and modulator = m2 / 255: (c2 * (255 + m2) + 255^2) / 510.
getAMSineValue(e, channel, ub) ==
  LET carrierValue == sineWave[TableIndex(e.lfoIndex[channel], ub) + 1]
      modValue == AMModValue(e, channel, ub)
      amResult == constrain(Bipolar2(carrierValue) * (255 + Bipolar2(modValue)),
                            0 - 255 * 255, 255 * 255)
  IN TruncDiv(amResult + 255 * 255, 510) % 256

\* sine * (0.1 + breath / 255 * 0.8) + 0.45 spike1 + 0.32 spike2 + 0.40 spike3,
\* all terms over the common denominator 255 * 255000.
getSwarmValue(e, channel, ub) ==
  LET baseSine == sineWave[TableIndex(e.lfoIndex[channel], ub) + 1]
      breathValue == triangleWave[TableIndex(e.swarmBreathIndex[channel], ub) + 1]
      tri1 == triangleWave[TableIndex(e.swarmTriIndex1[channel], ub) + 1]
      tri2 == triangleWave[TableIndex(e.swarmTriIndex2[channel], ub) + 1]
      tri3 == triangleWave[TableIndex(e.swarmTriIndex3[channel], ub) + 1]
      mix == Bipolar2(baseSine) * (255 + 8 * breathValue) * 100
             + (45 * Bipolar2(tri1) + 32 * Bipolar2(tri2) + 40 * Bipolar2(tri3)) * 2550
      result == constrain(mix, 0 - 255 * 255000, 255 * 255000)
  IN TruncDiv(result + 255 * 255000, 2 * 255000) % 256

\* ((oscA + oscB) * 0.5) * 127.5 + 127.5 = (a2 + b2 + 510) / 4
getPendulumValue(e, channel, ub) ==
  LET oscAValue == triangleWave[TableIndex(e.pendulumOscA[channel], ub) + 1]
      oscBValue == triangleWave[TableIndex(e.pendulumOscB[channel], ub) + 1]
      mixed == constrain(Bipolar2(oscAValue) + Bipolar2(oscBValue), 0 - 510, 510)
  IN TruncDiv(mixed + 510, 4) % 256

\* The value loaded into channel i's PWM compare register (OCR1A, OCR1B,
\* OCR2A, OCR2B).  Random Slope's float is converted by truncation.
OutputValue(e, i, ub) ==
  LET w == e.waveType[i]
  IN IF w = 3 THEN TruncDiv(e.randomSlope[i].currentValue, ValueOne)
     ELSE IF w = 4 \/ w = 5 \/ w = 6 THEN getWaveValue(0, e.lfoIndex[i], ub)
     ELSE IF w = 7 THEN getTriSineValue(e, i, ub)
     ELSE IF w = 8 THEN getAMSineValue(e, i, ub)
     ELSE IF w = 9 THEN getSwarmValue(e, i, ub)
     ELSE IF w = 10 THEN getPendulumValue(e, i, ub)
     ELSE IF w = 11 THEN getWaveValue(0, e.lfoIndex[i], ub)
     ELSE getWaveValue(w, e.lfoIndex[i], ub)

\* ------------------------------------------------------------------------
\* The engine pass of loop(): read the pots, update channels 0..3 in order,
\* load the four outputs.
\* ------------------------------------------------------------------------
UpdateChannel(e, i, d, currentMillis, ub) ==
  LET w == e.waveType[i]
      f == e.lfoFreq[i]
  IN IF w = 3 THEN updateRandomSlope(e, i, f, currentMillis, d)
     ELSE IF w = 4 THEN updateWonkyTri(e, i, f, d)
     ELSE IF w = 5 THEN updateFMTri(e, i, f, ub)
     ELSE IF w = 6 THEN updateRatchetTri(e, i, f, d)
     ELSE IF w = 7 THEN updateTriSine(e, i, f)
     ELSE IF w = 8 THEN updateAMSine(e, i, f)
     ELSE IF w = 9 THEN updateSwarm(e, i, f)
     ELSE IF w = 10 THEN updatePendulum(e, i, f)
     ELSE IF w = 11 THEN updateGravityWells(e, i, f, d)
     ELSE [e EXCEPT !.lfoIndex[i] = updateLFO(@, f)]

\* Variant: the loop of line 500 run from channel 3 down to channel 0.
UpdateAllDescending(e, draws, currentMillis, ub) ==
  LET e1 == UpdateChannel(e, 3, draws[4], currentMillis, ub)
      e2 == UpdateChannel(e1, 2, draws[3], currentMillis, ub)
      e3 == UpdateChannel(e2, 1, draws[2], currentMillis, ub)
  IN UpdateChannel(e3, 0, draws[1], currentMillis, ub)

UpdateAll(e, draws, currentMillis, ub) ==
  LET e1 == UpdateChannel(e, 0, draws[1], currentMillis, ub)
      e2 == UpdateChannel(e1, 1, draws[2], currentMillis, ub)
      e3 == UpdateChannel(e2, 2, draws[3], currentMillis, ub)
  IN UpdateChannel(e3, 3, draws[4], currentMillis, ub)

LoadOutputs(upd, ub) ==
  [upd EXCEPT !.OCR = [i \in Channels |-> OutputValue(upd, i, ub)],
              !.tableIndex = [i \in Channels |-> TableIndex(upd.lfoIndex[i], ub)],
              !.amSource = [i \in Channels |->
                              IF upd.waveType[i] = 8 THEN AMModSource(i) ELSE @[i]],
              !.ranAs = upd.waveType]

\* Variant: the outputs computed before the loop of line 500, from the state
\* the previous pass left.
EnginePassOutputsFirst(e, pots, draws, currentMillis, ub) ==
  LET read == [e EXCEPT !.lfoFreq = [i \in Channels |-> readFrequency(pots[i])]]
      out == LoadOutputs(read, ub)
  IN [UpdateAll(read, draws, currentMillis, ub)
        EXCEPT !.OCR = out.OCR, !.tableIndex = out.tableIndex,
               !.amSource = out.amSource, !.ranAs = out.ranAs]

EnginePass(e, pots, draws, currentMillis, ub) ==
  LoadOutputs(UpdateAll([e EXCEPT !.lfoFreq = [i \in Channels |-> readFrequency(pots[i])]],
                        draws, currentMillis, ub),
              ub)

\* ------------------------------------------------------------------------
\* State
\* ------------------------------------------------------------------------
VARIABLES
  waveType, selectedLFO, lfoIndex, lfoFreq,          \* LFO data
  previousMicros, lastEncoderActivity,               \* timing
  screensaverMode, oledWorking, oledActive,          \* display
  lastA, lastB, lastButton,                          \* encoder pins last seen
  lastEncoderChange, lastButtonChange,               \* debounce timestamps
  randomSlope, wonkyTri, ratchetTri,                 \* per-kind channel state
  sineIndex, chosenRatio,
  swarmBreathIndex, swarmTriIndex1, swarmTriIndex2, swarmTriIndex3,
  pendulumOscA, pendulumOscB, gravityWells,
  OCR,                                               \* PWM compare registers
  eeprom,                                            \* EEPROM bytes 0..3
  now,                                               \* time since reset, us
  pots,                                              \* levels at A0..A3
  pc,                                                \* position in loop()
  \* values of locals of the last engine pass, kept for observation
  fmFreq, fmSource, amSource, tableIndex, ranAs, rampStart, rampCut,
  \* history of loop(), kept for observation
  passes,                                            \* engine passes run so far
  elapsed,                                           \* currentMicros - previousMicros
                                                     \* at the last tick check
  displayOps                                         \* display calls of the last
                                                     \* encoder/button/screensaver check

engineVars ==
  << lfoIndex, lfoFreq, randomSlope, wonkyTri, ratchetTri, sineIndex,
     swarmBreathIndex, swarmTriIndex1, swarmTriIndex2, swarmTriIndex3,
     pendulumOscA, pendulumOscB, gravityWells, OCR,
     fmFreq, fmSource, amSource, tableIndex, ranAs, rampStart, rampCut >>

uiVars ==
  << waveType, selectedLFO, lastEncoderActivity, screensaverMode, oledActive,
     lastA, lastB, lastButton, lastEncoderChange, lastButtonChange, eeprom >>

vars ==
  << waveType, selectedLFO, lfoIndex, lfoFreq, previousMicros, lastEncoderActivity,
     screensaverMode, oledWorking, oledActive, lastA, lastB, lastButton,
     lastEncoderChange, lastButtonChange, randomSlope, wonkyTri, ratchetTri,
     sineIndex, chosenRatio, swarmBreathIndex, swarmTriIndex1, swarmTriIndex2,
     swarmTriIndex3, pendulumOscA, pendulumOscB, gravityWells, OCR, eeprom,
     now, pots, pc, fmFreq, fmSource, amSource, tableIndex, ranAs, rampStart,
     rampCut, passes, elapsed, displayOps >>

\* The engine's state as one record, the argument of the engine operators.
Engine ==
  [ waveType |-> waveType, lfoIndex |-> lfoIndex, lfoFreq |-> lfoFreq,
    randomSlope |-> randomSlope, wonkyTri |-> wonkyTri, ratchetTri |-> ratchetTri,
    sineIndex |-> sineIndex, chosenRatio |-> chosenRatio,
    swarmBreathIndex |-> swarmBreathIndex, swarmTriIndex1 |-> swarmTriIndex1,
    swarmTriIndex2 |-> swarmTriIndex2, swarmTriIndex3 |-> swarmTriIndex3,
    pendulumOscA |-> pendulumOscA, pendulumOscB |-> pendulumOscB,
    gravityWells |-> gravityWells, OCR |-> OCR,
    fmFreq |-> fmFreq, fmSource |-> fmSource, amSource |-> amSource,
    tableIndex |-> tableIndex, ranAs |-> ranAs,
    rampStart |-> rampStart, rampCut |-> rampCut ]

\* ------------------------------------------------------------------------
\* setup()
\* ------------------------------------------------------------------------
\* const float ratios[] = {1.618f, 1.33f, 1.7f, 1.732f}
ratios == << Milli(1618), Milli(1330), Milli(1700), Milli(1732) >>

\* setup() runs delay(1000), then either five 400 ms LED blinks (no display)
\* or, after taking lastEncoderActivity, the 2000 ms splash screen.
SetupDoneMs == 1000 + 2000

\* s: one draw of each random() call of setup(), used for every channel.
\* Variants: the range check of the eleven-waveform firmware, and none.
LoadWaveUpTo10(storedWave) == IF storedWave <= 10 THEN storedWave ELSE 0

LoadWaveUnchecked(storedWave) == storedWave

\* uint8_t waveType[4] = {0, 0, 0, 0};  if(storedWave <= 11) waveType[i] = storedWave
LoadWave(storedWave) == IF storedWave <= 11 THEN storedWave ELSE 0

Setup(stored, s, oled) ==
  /\ waveType = [i \in Channels |-> LoadWave(stored[i])]
  /\ eeprom = stored
  /\ selectedLFO = 0
  /\ lfoIndex = [i \in Channels |-> 0]
  /\ lfoFreq = [i \in Channels |-> CentiHz(2)]
  /\ previousMicros = 0
  /\ lastEncoderActivity = IF oled THEN 1000 ELSE SetupDoneMs
  /\ screensaverMode = FALSE
  /\ oledWorking = oled
  /\ oledActive = TRUE
  /\ lastA = "HIGH"
  /\ lastB = "HIGH"
  /\ lastButton = "HIGH"
  /\ lastEncoderChange = 0
  /\ lastButtonChange = 0
  /\ randomSlope = [i \in Channels |->
        [currentValue |-> 0, targetValue |-> 0, slopeStep |-> 0, previousMillis |-> 0]]
  /\ wonkyTri = [i \in Channels |->
        [holdCounter |-> 0, freqMultiplier |-> MultOne, holdDuration |-> 100 + s.hold]]
  /\ ratchetTri = [i \in Channels |->
        [ ratchetCounter |-> 0, burstDuration |-> 50 + s.burst,
          pauseDuration |-> 100 + s.pause, pauseCounter |-> 0, inPause |-> FALSE,
          burstCount |-> 0, maxBursts |-> 2 + s.maxBursts,
          fastFreqMultiplier |-> FastFreqMultiplier(s.fast),
          \* kept for observation: bursts ended since the last long pause was
          \* chosen (or since setup()), and whether one has been chosen
          burstsDone |-> 0, afterLong |-> FALSE ]]
  /\ sineIndex = [i \in Channels |-> 0]
  /\ chosenRatio = [i \in Channels |-> ratios[s.ratio + 1]]
  /\ swarmBreathIndex = [i \in Channels |-> 0]
  /\ swarmTriIndex1 = [i \in Channels |-> 0]
  /\ swarmTriIndex2 = [i \in Channels |-> 0]
  /\ swarmTriIndex3 = [i \in Channels |-> 0]
  /\ pendulumOscA = [i \in Channels |-> 0]
  /\ pendulumOscB = [i \in Channels |-> 0]
  /\ gravityWells = [i \in Channels |->
        [currentFreq |-> FreqOne, momentum |-> 0, dominantWell |-> 0]]
  /\ OCR = [i \in Channels |-> 0]
  /\ now = SetupDoneMs * 1000
  /\ pc = "ui"
  /\ fmFreq = [i \in Channels |-> 0]
  /\ fmSource = [i \in Channels |-> NumChannels]
  /\ amSource = [i \in Channels |-> NumChannels]
  /\ tableIndex = [i \in Channels |-> 0]
  /\ ranAs = [i \in Channels |-> NumWaves]
  /\ rampStart = [i \in Channels |-> 0]
  /\ rampCut = [i \in Channels |-> FALSE]
  /\ passes = 0
  /\ elapsed = 0
  /\ displayOps = << >>

\* ------------------------------------------------------------------------
\* The draws a channel's update makes from random() in one pass, given its
\* state at the start of the pass.  Each call's results are sampled at the
\* ends of its range (and at values on both sides of each comparison).
\* ------------------------------------------------------------------------
SlopeDraws(rs, frequency, currentMillis, targets) ==
  IF SlopeDue(rs, frequency, currentMillis)
  THEN {[NoDraw EXCEPT !.slopeTarget = t] : t \in targets}
  ELSE {NoDraw}

\* random(0, 100) < 5 with random(-300, 301); or no jitter.
JitterDraws ==
  { [NoDraw EXCEPT !.wJitSel = 50],
    [NoDraw EXCEPT !.wJitSel = 0, !.wJitter = 0 - 300],
    [NoDraw EXCEPT !.wJitSel = 4, !.wJitter = 300] }

NoJitter == {[NoDraw EXCEPT !.wJitSel = 50]}

WonkyDraws(w, jitters) ==
  IF WonkyHoldDue(w)
  THEN { [j EXCEPT !.wHoldSel = h[1], !.wHoldLong = h[2], !.wHoldShort = h[3],
                   !.wDriftSel = m[1], !.wDrift = m[2], !.wGlitch = m[3],
                   !.wNudge = n] :
           j \in jitters,
           h \in {<<79, 0, 0>>, <<79, 600, 0>>, <<80, 0, 0>>, <<99, 0, 70>>},
           m \in {<<0, 0, 0>>, <<69, 199, 0>>, <<70, 0, 0>>, <<99, 0, 99>>},
           n \in {19, 20} }
  ELSE IF w.freqMultiplier > Milli(1250)
       THEN {[j EXCEPT !.wNudge = n] : j \in jitters, n \in {19, 20}}
       ELSE jitters

RatchetDraws(r) ==
  IF r.inPause
  THEN IF RatchetPauseEnds(r)
       THEN {[NoDraw EXCEPT !.rBurst = b, !.rFast = f] : b \in {0, 99}, f \in {0, 599}}
       ELSE {NoDraw}
  ELSE IF RatchetBurstEnds(r)
       THEN { [NoDraw EXCEPT !.rMax = p[1], !.rLong = p[2], !.rShort = p[3],
                             !.rStutSel = s[1], !.rStut = s[2]] :
                p \in (IF r.burstCount >= r.maxBursts
                       THEN {<<0, 0, 0>>, <<3, 399, 0>>}
                       ELSE {<<0, 0, 0>>, <<0, 0, 99>>}),
                s \in {<<10, 0>>, <<9, 0>>, <<0, 19>>} }
       ELSE {NoDraw}

\* random(0, 1000) < 4 with the multiplier draw; or no new target.
NoPull == {[NoDraw EXCEPT !.gSel = 4]}

GravityDraws ==
  { [NoDraw EXCEPT !.gSel = 4],
    [NoDraw EXCEPT !.gSel = 3, !.gMult = 0],
    [NoDraw EXCEPT !.gSel = 0, !.gMult = 999] }

\* P samples the per-tick draws: the jitter draw may hit on every
\* P.jitterEvery-th tick and the Gravity draw on every P.gravityEvery-th,
\* counted from the end of setup(); on the other ticks they miss.
Tick(t) == (t - SetupDoneMs * 1000) \div UPDATE_INTERVAL_US

ChannelDraws(e, i, frequency, currentMicros, P) ==
  LET w == e.waveType[i]
      tick == Tick(currentMicros)
  IN IF w = 3 THEN SlopeDraws(e.randomSlope[i], frequency, currentMicros \div 1000,
                              P.targets)
     ELSE IF w = 4 THEN WonkyDraws(e.wonkyTri[i],
                                   IF tick % P.jitterEvery = 0 THEN JitterDraws
                                   ELSE NoJitter)
     ELSE IF w = 6 THEN RatchetDraws(e.ratchetTri[i])
     ELSE IF w = 11 THEN (IF tick % P.gravityEvery = 0 THEN GravityDraws ELSE NoPull)
     ELSE {NoDraw}

\* No accumulator can leave the range in which the uint16_t conversion is
\* defined during the coming pass: an update adds less than 32 table steps
\* and subtracts at most 0.3 (Wonky jitter).
Accumulators(e) ==
  UNION { { e.lfoIndex[i], e.sineIndex[i], e.swarmBreathIndex[i], e.swarmTriIndex1[i],
            e.swarmTriIndex2[i], e.swarmTriIndex3[i], e.pendulumOscA[i],
            e.pendulumOscB[i] } : i \in Channels }

CastChoices(e) ==
  IF \A x \in Accumulators(e) : 2 * x > 0 - PhaseOne /\ x < (65536 - 32) * PhaseOne
  THEN {"wrap"}
  ELSE CastOutcomes

\* The levels the inputs can show at time t: the encoder pins can change on
\* every P.pinEvery-th tick and the pots on every P.potEvery-th, and hold
\* their level in between.
PinLevels(t, levels, last, P) == IF Tick(t) % P.pinEvery = 0 THEN levels ELSE {last}

PotLevels(t, P) == IF Tick(t) % P.potEvery = 0 THEN P.pots ELSE {pots}

\* ------------------------------------------------------------------------
\* loop(), first part: encoder, button and screensaver checks
\* ------------------------------------------------------------------------
\* Variant: a turn that stops at the first and the last waveform.
TurnedToEnds(k, currentB) == IF currentB = "HIGH" THEN Min(k + 1, 11) ELSE Max(k - 1, 0)

\* waveType[selectedLFO] = (waveType[selectedLFO] + 1) % 12, or + 11
Turned(k, currentB) == IF currentB = "HIGH" THEN (k + 1) % 12 ELSE (k + 11) % 12

\* selectedLFO = (selectedLFO + 1) % 4
NextChannel(s) == (s + 1) % 4

\* Variant: a change that is not written.
EepromWriteLost(mem, address, value) == mem

\* EEPROM.write(selectedLFO, waveType[selectedLFO])
EepromWrite(mem, address, value) == [mem EXCEPT ![address] = value]

\* Variant: the display calls without the oledWorking guards.
DisplayOpsUnguarded(working, active, moved, detent, pressed, timeout) ==
  LET afterMove == active \/ moved
      afterPress == afterMove \/ pressed
  IN (IF moved /\ ~active THEN << "DISPLAYON" >> ELSE << >>)
     \o (IF detent /\ afterMove THEN << "display" >> ELSE << >>)
     \o (IF pressed /\ ~afterMove THEN << "DISPLAYON" >> ELSE << >>)
     \o (IF pressed /\ afterPress THEN << "display" >> ELSE << >>)
     \o (IF timeout /\ afterPress THEN << "DISPLAYOFF" >> ELSE << >>)

\* The display calls of one pass through the three checks, in order:
\* DISPLAYON when the encoder moved with the panel off, a redraw after a
\* detent, DISPLAYON and a redraw after a press, DISPLAYOFF on timeout.
\* updateDisplay() itself returns at once unless oledWorking && oledActive.
DisplayOps(working, active, moved, detent, pressed, timeout) ==
  LET afterMove == active \/ (moved /\ working)
      afterPress == afterMove \/ (pressed /\ working)
  IN (IF moved /\ ~active /\ working THEN << "DISPLAYON" >> ELSE << >>)
     \o (IF detent /\ working /\ afterMove THEN << "display" >> ELSE << >>)
     \o (IF pressed /\ ~afterMove /\ working THEN << "DISPLAYON" >> ELSE << >>)
     \o (IF pressed /\ working /\ afterPress THEN << "display" >> ELSE << >>)
     \o (IF timeout /\ working /\ afterPress THEN << "DISPLAYOFF" >> ELSE << >>)

Redraws(ops) == Cardinality({k \in DOMAIN ops : ops[k] = "display"})

\* Variant: a timeout that fires when exactly UI_TIMEOUT_MS have elapsed.
TimedOutAtLimit(currentTime, activity, saver) ==
  currentTime - activity >= UI_TIMEOUT_MS /\ ~saver

\* if (currentTime - lastEncoderActivity > UI_TIMEOUT_MS && !screensaverMode)
TimedOut(currentTime, activity, saver) ==
  currentTime - activity > UI_TIMEOUT_MS /\ ~saver

\* The time the checks take before loop() reads micros(): P.writeUs for the
\* EEPROM write of a detent and P.drawUs for each redraw.
UICost(P, detent, ops) == (IF detent THEN P.writeUs ELSE 0) + P.drawUs * Redraws(ops)

LoopUI(P) ==
  /\ pc = "ui"
  /\ \E currentA \in PinLevels(now, P.pinA, lastA, P),
        currentB \in PinLevels(now, P.pinB, lastB, P),
        currentButton \in PinLevels(now, P.button, lastButton, P) :
       LET currentTime == now \div 1000
           moved == currentA # lastA \/ currentB # lastB
           detent == /\ moved
                     /\ lastA = "HIGH" /\ currentA = "LOW"
                     /\ currentTime - lastEncoderChange > 10
           turned == Turned(waveType[selectedLFO], currentB)
           edge == currentButton # lastButton /\ currentTime - lastButtonChange > 100
           pressed == edge /\ currentButton = "LOW"
           active == moved \/ pressed
           woken == active /\ ~oledActive /\ oledWorking
           activity == IF active THEN currentTime ELSE lastEncoderActivity
           saverOff == IF active THEN FALSE ELSE screensaverMode
           panelOn == IF woken THEN TRUE ELSE oledActive
           timeout == TimedOut(currentTime, activity, saverOff)
       IN /\ waveType' = IF detent THEN [waveType EXCEPT ![selectedLFO] = turned]
                         ELSE waveType
          /\ eeprom' = IF detent THEN EepromWrite(eeprom, selectedLFO, turned) ELSE eeprom
          /\ lastEncoderChange' = IF detent THEN currentTime ELSE lastEncoderChange
          /\ lastA' = IF moved THEN currentA ELSE lastA
          /\ lastB' = IF moved THEN currentB ELSE lastB
          /\ selectedLFO' = IF pressed THEN NextChannel(selectedLFO) ELSE selectedLFO
          /\ lastButton' = IF edge THEN currentButton ELSE lastButton
          /\ lastButtonChange' = IF edge THEN currentTime ELSE lastButtonChange
          /\ lastEncoderActivity' = activity
          /\ screensaverMode' = IF timeout THEN TRUE ELSE saverOff
          /\ oledActive' = IF timeout /\ oledWorking /\ panelOn THEN FALSE ELSE panelOn
          /\ \E ops \in {DisplayOps(oledWorking, oledActive, moved, detent, pressed,
                                    timeout)} :
               /\ displayOps' = ops
               /\ now' = now + UICost(P, detent, ops)
  /\ pc' = "lfo"
  /\ UNCHANGED << engineVars, chosenRatio, previousMicros, oledWorking, pots,
                  passes, elapsed >>

\* ------------------------------------------------------------------------
\* loop(), second part: the tick check and the engine pass.  The iteration
\* of loop() then ends, dt microseconds after it read the clock.
\* ------------------------------------------------------------------------
\* An unsigned long is kept as its two 16-bit halves << high, low >>.
U32(n) == << (n \div 65536) % 65536, n % 65536 >>

\* micros() at time t, where the counter reads 0 at time zeroAt: before
\* zeroAt it is on its way up to 2^32 - 1.
micros(t, zeroAt) ==
  IF t >= zeroAt THEN U32(t - zeroAt)
  ELSE LET short == zeroAt - t - 1
       IN << 65535 - ((short \div 65536) % 65536), 65535 - (short % 65536) >>

\* a - b and a + b of two unsigned long, modulo 2^32
Sub32(a, b) ==
  LET borrow == IF a[2] < b[2] THEN 1 ELSE 0
  IN << (a[1] - b[1] - borrow) % 65536, (a[2] - b[2]) % 65536 >>

Add32(a, b) ==
  LET carry == IF a[2] + b[2] >= 65536 THEN 1 ELSE 0
  IN << (a[1] + b[1] + carry) % 65536, (a[2] + b[2]) % 65536 >>

\* a >= b of two unsigned long
Geq32(a, b) == a[1] > b[1] \/ (a[1] = b[1] /\ a[2] >= b[2])

\* Variant: a check that succeeds on every poll.
TickDueAlways(currentMicros, previous) == Geq32(Sub32(currentMicros, previous), U32(0))

\* Variant: the check written as currentMicros >= previousMicros + UPDATE_INTERVAL_US.
TickDueByDeadline(currentMicros, previous) ==
  Geq32(currentMicros, Add32(previous, U32(UPDATE_INTERVAL_US)))

\* if (currentMicros - previousMicros >= UPDATE_INTERVAL_US)
TickDue(currentMicros, previous) ==
  Geq32(Sub32(currentMicros, previous), U32(UPDATE_INTERVAL_US))

LoopLFO(P) ==
  /\ pc = "lfo"
  /\ now < P.endTime
  /\ LET currentMicros == now
         currentMillis == now \div 1000
     IN /\ elapsed' = currentMicros - previousMicros
        /\ IF TickDue(micros(currentMicros, P.microsZeroAt),
                      micros(previousMicros, P.microsZeroAt))
           THEN /\ previousMicros' = currentMicros
                /\ passes' = passes + 1
                /\ \E raw \in PotLevels(currentMicros, P), ub \in CastChoices(Engine) :
                     LET e == Engine
                         D(i) == ChannelDraws(e, i, readFrequency(raw[i]),
                                              currentMicros, P)
                     IN \E d0 \in D(0), d1 \in D(1), d2 \in D(2), d3 \in D(3) :
                          \E r \in {EnginePass(e, raw, <<d0, d1, d2, d3>>,
                                              currentMillis, ub)} :
                             /\ pots' = raw
                             /\ lfoIndex' = r.lfoIndex
                             /\ lfoFreq' = r.lfoFreq
                             /\ randomSlope' = r.randomSlope
                             /\ wonkyTri' = r.wonkyTri
                             /\ ratchetTri' = r.ratchetTri
                             /\ sineIndex' = r.sineIndex
                             /\ swarmBreathIndex' = r.swarmBreathIndex
                             /\ swarmTriIndex1' = r.swarmTriIndex1
                             /\ swarmTriIndex2' = r.swarmTriIndex2
                             /\ swarmTriIndex3' = r.swarmTriIndex3
                             /\ pendulumOscA' = r.pendulumOscA
                             /\ pendulumOscB' = r.pendulumOscB
                             /\ gravityWells' = r.gravityWells
                             /\ OCR' = r.OCR
                             /\ fmFreq' = r.fmFreq
                             /\ fmSource' = r.fmSource
                             /\ amSource' = r.amSource
                             /\ tableIndex' = r.tableIndex
                             /\ ranAs' = r.ranAs
                             /\ rampStart' = r.rampStart
                             /\ rampCut' = r.rampCut
           ELSE UNCHANGED << previousMicros, engineVars, pots, passes >>
  /\ \E dt \in P.dts : now' = now + dt
  /\ pc' = "ui"
  /\ UNCHANGED << uiVars, chosenRatio, oledWorking, displayOps >>


\* ------------------------------------------------------------------------
\* Inputs
\* ------------------------------------------------------------------------
Pins == {"HIGH", "LOW"}

Released == {"HIGH"}

\* Pot readings: fully counter-clockwise, centre, fully clockwise.
PotLow == 0
PotMid == 512
PotHigh == 1023

AllAt(r) == [i \in Channels |-> r]

\* Draws of setup(): the low and the high end of each random() range.
SeedLow == [hold |-> 0, burst |-> 0, pause |-> 0, maxBursts |-> 0, fast |-> 0, ratio |-> 0]

SeedHigh ==
  [hold |-> 599, burst |-> 99, pause |-> 199, maxBursts |-> 3, fast |-> 599, ratio |-> 3]

EndTime(ms) == (SetupDoneMs + ms) * 1000

\* ------------------------------------------------------------------------
\* Specification: the whole loop, every waveform kind stored for channel 1
\* with every kind stored for its ring source, channel 0, the pots fully
\* clockwise or fully counter-clockwise.
\* ------------------------------------------------------------------------
HorizonMs == 21

MainProfile ==
  [ pinA |-> Released, pinB |-> Released, button |-> Released, pinEvery |-> 1,
    pots |-> {AllAt(PotLow), AllAt(PotHigh)}, potEvery |-> 40,
    dts |-> {UPDATE_INTERVAL_US}, writeUs |-> 0, drawUs |-> 0,
    targets |-> {0, 255},
    jitterEvery |-> 12, gravityEvery |-> 26,
    microsZeroAt |-> 0,
    endTime |-> EndTime(HorizonMs) ]

Init ==
  /\ \E a \in 0 .. 11, b \in 0 .. 11 :
       Setup((0 :> a @@ 1 :> b @@ 2 :> 0 @@ 3 :> 0), SeedLow, TRUE)
  /\ pots \in MainProfile.pots

Next == LoopUI(MainProfile) \/ LoopLFO(MainProfile)

Spec == Init /\ [][Next]_vars


\* ------------------------------------------------------------------------
\* Properties of Spec
\* ------------------------------------------------------------------------
\* The kinds whose output is getWaveValue(.., lfoIndex[i]).
TableKinds == {Triangle, Square, Sine, WonkyTri, FMTri, RatchetTri, Gravity}

FloorIndex(phaseIndex) == (phaseIndex \div PhaseOne) % TABLE_SIZE

\* C1: after every pass, the table index used for a channel's lookup is
\* floor(phase) mod 256, also for the phases Wonky Triangle's jitter reaches.
C1_IndexIsFloorMod ==
  \A i \in Channels :
    ranAs[i] \in TableKinds =>
      /\ tableIndex[i] \in 0 .. 255
      /\ tableIndex[i] = FloorIndex(lfoIndex[i])

FMInputsInRange ==
  \A raw \in 0 .. 1023, modValue \in 0 .. 255 :
    /\ FMFreq(readFrequency(raw), modValue) >= CentiHz(1)
    /\ FMFreq(readFrequency(raw), modValue) <= CentiHz(2500)

\* C5: in every pass in which a channel runs FM, the frequency handed to the
\* phase accumulator is within [0.01, 25.0] Hz, for every pot position and
\* every neighbour sample.
C5_FMFreqInRange ==
  /\ FMInputsInRange
  /\ \A i \in Channels :
       ranAs[i] = FMTri => fmFreq[i] >= CentiHz(1) /\ fmFreq[i] <= CentiHz(2500)

\* An FM channel has been driven at the upper limit and, earlier or on
\* another channel, at the lower.
C5_Witness ==
  \E i \in Channels :
    /\ ranAs[i] = FMTri
    /\ fmFreq[i] = CentiHz(2500)

\* ------------------------------------------------------------------------
\* SpecRing: the ring of cross-modulation.  Every channel stores Triangle,
\* Sine, FM or AM Sine; the pots stay where they are.
\* ------------------------------------------------------------------------
HorizonRingMs == 4

RingKinds == {Triangle, Sine, FMTri, AMSine}

RingProfile ==
  [ pinA |-> Released, pinB |-> Released, button |-> Released, pinEvery |-> 1,
    pots |-> {AllAt(PotMid), AllAt(PotHigh)}, potEvery |-> 1000,
    dts |-> {UPDATE_INTERVAL_US}, writeUs |-> 0, drawUs |-> 0,
    targets |-> {0, 255},
    jitterEvery |-> 12, gravityEvery |-> 26,
    microsZeroAt |-> 0,
    endTime |-> EndTime(HorizonRingMs) ]

InitRing ==
  /\ \E stored \in [Channels -> RingKinds] : Setup(stored, SeedLow, TRUE)
  /\ pots \in RingProfile.pots

NextRing == LoopUI(RingProfile) \/ LoopLFO(RingProfile)

SpecRing == InitRing /\ [][NextRing]_vars

\* 0 <- 3, 1 <- 0, 2 <- 1, 3 <- 2
RingSource == (0 :> 3) @@ (1 :> 0) @@ (2 :> 1) @@ (3 :> 2)

\* C3: the FM update and the AM output of channel i read channel
\* (i + 3) mod 4, never channel i, and the same channel in every pass.
C3_RingSource ==
  \A i \in Channels :
    /\ ranAs[i] = FMTri => fmSource[i] = RingSource[i]
    /\ ranAs[i] = AMSine => amSource[i] = RingSource[i]
    /\ fmSource[i] \in {NumChannels, RingSource[i]}
    /\ amSource[i] \in {NumChannels, RingSource[i]}
    /\ fmSource[i] # i /\ amSource[i] # i

\* All four channels have run FM, each reading its ring source.
C3_Witness ==
  /\ \A i \in Channels : ranAs[i] = FMTri /\ fmSource[i] = RingSource[i]
  /\ lfoIndex[1] > 0

\* The sample channel i emits in the pass that starts in the current state.
NoDraws == << NoDraw, NoDraw, NoDraw, NoDraw >>

PassSample(e, i) == EnginePass(e, pots, NoDraws, now \div 1000, "wrap").OCR[i]

AltPhases == {0, 64 * PhaseOne, 128 * PhaseOne, 192 * PhaseOne}

\* C4: a pass started with another phase in channel (i + 1) mod 4 or
\* (i + 2) mod 4, and nothing else changed, emits the same sample on channel i.
C4_OneHopOnly ==
  \A i \in Channels, k \in {1, 2}, x \in AltPhases :
    PassSample([Engine EXCEPT !.lfoIndex[(i + k) % 4] = x], i) = PassSample(Engine, i)

\* ------------------------------------------------------------------------
\* SpecGravity: channel 1 stores Gravity and channel 0 Pendulum, which a
\* clockwise detent of the encoder turns into Gravity; the pots move
\* between their end stops.
\* ------------------------------------------------------------------------
HorizonGravityMs == 6

GravityProfile ==
  [ pinA |-> Pins, pinB |-> Released, button |-> Released, pinEvery |-> 8,
    pots |-> {AllAt(PotLow), AllAt(PotHigh)}, potEvery |-> 5,
    dts |-> {UPDATE_INTERVAL_US}, writeUs |-> 0, drawUs |-> 0,
    targets |-> {0, 255},
    jitterEvery |-> 12, gravityEvery |-> 6,
    microsZeroAt |-> 0,
    endTime |-> EndTime(HorizonGravityMs) ]

InitGravity ==
  /\ Setup((0 :> Pendulum) @@ (1 :> Gravity) @@ (2 :> Triangle) @@ (3 :> Triangle),
           SeedLow, TRUE)
  /\ pots \in GravityProfile.pots

NextGravity == LoopUI(GravityProfile) \/ LoopLFO(GravityProfile)

SpecGravity == InitGravity /\ [][NextGravity]_vars

\* currentFreq of channel i is within [0.1, 5.0] x the frequency of its pot.
GravityInBand(i) ==
  LET baseFreq == readFrequency(pots[i])
  IN /\ gravityWells[i].currentFreq >= TruncDiv(baseFreq, 10)
     /\ gravityWells[i].currentFreq <= 5 * baseFreq

HorizonRatchetMs == 100

RatchetProfile ==
  [ pinA |-> Released, pinB |-> Released, button |-> Released, pinEvery |-> 1,
    pots |-> {AllAt(PotMid), AllAt(PotHigh)}, potEvery |-> 1000,
    dts |-> {UPDATE_INTERVAL_US}, writeUs |-> 0, drawUs |-> 0,
    targets |-> {0, 255},
    jitterEvery |-> 12, gravityEvery |-> 26,
    microsZeroAt |-> 0,
    endTime |-> EndTime(HorizonRatchetMs) ]

InitRatchet ==
  /\ \E s \in {SeedLow, SeedHigh} :
       Setup((0 :> RatchetTri) @@ (1 :> Triangle) @@ (2 :> Triangle) @@ (3 :> Triangle),
             s, TRUE)
  /\ pots \in RatchetProfile.pots

NextRatchet == LoopUI(RatchetProfile) \/ LoopLFO(RatchetProfile)

SpecRatchet == InitRatchet /\ [][NextRatchet]_vars

\* C7: in the startup state and after every pass, every channel's
\* pauseCounter is below its pauseDuration and its ratchetCounter below its
\* burstDuration.
C7_CountersBelowDurations ==
  \A i \in Channels :
    /\ ratchetTri[i].pauseCounter < ratchetTri[i].pauseDuration
    /\ ratchetTri[i].ratchetCounter < ratchetTri[i].burstDuration

\* A second pause is being counted: both transitions have been made.
C7_Witness ==
  \E i \in Channels :
    /\ ranAs[i] = RatchetTri
    /\ ratchetTri[i].inPause
    /\ ratchetTri[i].burstCount >= 1
    /\ ratchetTri[i].pauseCounter >= 1

\* C8: a pass that a Ratchet Triangle channel starts paused leaves the
\* channel's phase, and with it the output, as they were, the pass that
\* ends the pause included.
C8_PausedTickKeepsPhase ==
  [][ \A i \in Channels :
        (pc = "lfo" /\ waveType[i] = RatchetTri /\ ratchetTri[i].inPause)
          => /\ lfoIndex'[i] = lfoIndex[i]
             /\ ranAs[i] = RatchetTri => OCR'[i] = OCR[i] ]_vars

\* A pause has ended and the burst after it is running.
C8_Witness ==
  \E i \in Channels :
    /\ ranAs[i] = RatchetTri
    /\ ~ratchetTri[i].inPause
    /\ ratchetTri[i].burstCount >= 1
    /\ ratchetTri[i].ratchetCounter >= 1

\* ------------------------------------------------------------------------
\* SpecSlope: channel 0 stores Random Slope, and the encoder can turn it
\* to Sine or Wonky Triangle and back; channel 1 runs FM and channel 2 AM
\* Sine behind it; the pots move between 5 Hz and fully clockwise.
\* ------------------------------------------------------------------------
HorizonSlopeMs == 74

\* A pot reading of about 5 Hz.
PotBrisk == 786

SlopeProfile ==
  [ pinA |-> Pins, pinB |-> Pins, button |-> Released, pinEvery |-> 50,
    pots |-> {AllAt(PotBrisk), AllAt(PotHigh)}, potEvery |-> 60,
    dts |-> {UPDATE_INTERVAL_US}, writeUs |-> 0, drawUs |-> 0,
    targets |-> {0, 255},
    jitterEvery |-> 1000, gravityEvery |-> 1000,
    microsZeroAt |-> 0,
    endTime |-> EndTime(HorizonSlopeMs) ]

InitSlope ==
  /\ Setup((0 :> RandomSlope) @@ (1 :> FMTri) @@ (2 :> AMSine) @@ (3 :> Triangle),
           SeedHigh, TRUE)
  /\ pots \in SlopeProfile.pots

NextSlope == LoopUI(SlopeProfile) \/ LoopLFO(SlopeProfile)

SpecSlope == InitSlope /\ [][NextSlope]_vars

\* C9: after every step, every channel's currentValue lies between the value
\* it had at the last retarget and targetValue, and a step without a
\* retarget leaves it no further from targetValue than it was.
C9_RampStaysBetween ==
  [][ \A i \in Channels :
        LET rs == randomSlope[i]
            rn == randomSlope'[i]
        IN /\ rn.currentValue >= Min(rampStart'[i], rn.targetValue)
           /\ rn.currentValue <= Max(rampStart'[i], rn.targetValue)
           /\ (rn.previousMillis = rs.previousMillis /\ rn.targetValue = rs.targetValue)
                => Abs(rn.targetValue - rn.currentValue)
                     <= Abs(rs.targetValue - rs.currentValue) ]_vars

\* A falling ramp is under way, strictly between its start and its target.
C9_Witness ==
  \E i \in Channels :
    /\ ranAs[i] = RandomSlope
    /\ randomSlope[i].currentValue < rampStart[i]
    /\ randomSlope[i].currentValue > randomSlope[i].targetValue

\* C10: at every retarget, currentValue has reached the target of the ramp
\* that the retarget ends.
C10_TargetReachedByRetarget == \A i \in Channels : ~rampCut[i]

\* ------------------------------------------------------------------------
\* Specification SpecPhase: the update and output part of the engine pass
\* (the dispatch loop and the OCR assignments of loop()) run tick after tick
\* at one constant frequency, on channels set to Triangle, Square, Sine and
\* Triangle, from the phase 0 of setup().
\* ------------------------------------------------------------------------
PhaseTicksMax == 32010

\* 1.0 Hz, and the 20 Hz of a pot turned fully clockwise.
PhaseFreqs == {CentiHz(100), readFrequency(PotHigh)}

EngineBecomes(r) ==
  /\ lfoIndex' = r.lfoIndex
  /\ lfoFreq' = r.lfoFreq
  /\ randomSlope' = r.randomSlope
  /\ wonkyTri' = r.wonkyTri
  /\ ratchetTri' = r.ratchetTri
  /\ sineIndex' = r.sineIndex
  /\ swarmBreathIndex' = r.swarmBreathIndex
  /\ swarmTriIndex1' = r.swarmTriIndex1
  /\ swarmTriIndex2' = r.swarmTriIndex2
  /\ swarmTriIndex3' = r.swarmTriIndex3
  /\ pendulumOscA' = r.pendulumOscA
  /\ pendulumOscB' = r.pendulumOscB
  /\ gravityWells' = r.gravityWells
  /\ OCR' = r.OCR
  /\ fmFreq' = r.fmFreq
  /\ fmSource' = r.fmSource
  /\ amSource' = r.amSource
  /\ tableIndex' = r.tableIndex
  /\ ranAs' = r.ranAs
  /\ rampStart' = r.rampStart
  /\ rampCut' = r.rampCut

\* One tick at frequency freq on every channel; the frequency chosen for
\* the first tick is kept for all later ones.
PhaseTick(freq) ==
  /\ passes < PhaseTicksMax
  /\ passes = 0 \/ lfoFreq = [i \in Channels |-> freq]
  /\ \E ub \in CastChoices(Engine) :
       \E r \in {LoadOutputs(UpdateAll([Engine EXCEPT !.lfoFreq = [i \in Channels |-> freq]],
                                       NoDraws, now \div 1000, ub), ub)} :
          EngineBecomes(r)
  /\ passes' = passes + 1
  /\ elapsed' = now - previousMicros
  /\ previousMicros' = now
  /\ now' = now + UPDATE_INTERVAL_US
  /\ UNCHANGED << uiVars, chosenRatio, oledWorking, pots, pc, displayOps >>

InitPhase ==
  /\ Setup((0 :> Triangle @@ 1 :> Square @@ 2 :> Sine @@ 3 :> Triangle), SeedLow, TRUE)
  /\ pots = AllAt(PotHigh)

NextPhase == \E freq \in PhaseFreqs : PhaseTick(freq)

SpecPhase == InitPhase /\ [][NextPhase]_vars

HorizonSchedMs == 12

SchedProfile ==
  [ pinA |-> Released, pinB |-> Released, button |-> Released, pinEvery |-> 1,
    pots |-> {AllAt(PotMid)}, potEvery |-> 1,
    dts |-> {UPDATE_INTERVAL_US \div 2, UPDATE_INTERVAL_US, 1000},
    writeUs |-> 0, drawUs |-> 0,
    targets |-> {0, 255},
    jitterEvery |-> 1000, gravityEvery |-> 1000,
    microsZeroAt |-> 0,
    endTime |-> EndTime(HorizonSchedMs) ]

InitSched ==
  /\ Setup(AllAt(Triangle), SeedLow, TRUE)
  /\ pots \in SchedProfile.pots

NextSched == LoopUI(SchedProfile) \/ LoopLFO(SchedProfile)

SpecSched == InitSched /\ [][NextSched]_vars

\* C12: a successful tick check after the first advances previousMicros by
\* exactly one interval, not to the current time.
C12_AdvanceByOneInterval ==
  [][previousMicros' # previousMicros /\ passes >= 1 =>
       previousMicros' = previousMicros + UPDATE_INTERVAL_US]_vars

\* C14: an iteration of loop() runs at most one engine pass, it runs one
\* when two or more intervals have elapsed since the previous pass, and a
\* pass is run only when at least UPDATE_INTERVAL_US have elapsed on the
\* microsecond clock since the previous one.
C14_OnePassPerLateCheck ==
  [][/\ passes' \in {passes, passes + 1}
     /\ pc = "lfo" /\ now - previousMicros >= 2 * UPDATE_INTERVAL_US =>
          passes' = passes + 1 /\ previousMicros' = now
     /\ passes' = passes + 1 =>
          now - previousMicros >= UPDATE_INTERVAL_US /\ previousMicros' = now]_vars

C14_Witness ==
  /\ pc = "ui"
  /\ passes >= 3
  /\ elapsed >= 2 * UPDATE_INTERVAL_US
  /\ previousMicros = now - 1000

\* ------------------------------------------------------------------------
\* Specification SpecCadence: the loop polled every 400 us while the encoder
\* is turned and pressed.  A detent's EEPROM write takes 3.4 ms and a
\* redraw of the display 6 ms, before loop() reads micros().
\* ------------------------------------------------------------------------
HorizonCadenceMs == 30

CadenceProfile ==
  [ pinA |-> Pins, pinB |-> Pins, button |-> Pins, pinEvery |-> 30,
    pots |-> {AllAt(PotMid)}, potEvery |-> 1,
    dts |-> {UPDATE_INTERVAL_US}, writeUs |-> 3400, drawUs |-> 6000,
    targets |-> {0, 255},
    jitterEvery |-> 1000, gravityEvery |-> 1000,
    microsZeroAt |-> 0,
    endTime |-> EndTime(HorizonCadenceMs) ]

InitCadence ==
  /\ \E oled \in BOOLEAN : Setup(AllAt(Triangle), SeedLow, oled)
  /\ pots \in CadenceProfile.pots

NextCadence == LoopUI(CadenceProfile) \/ LoopLFO(CadenceProfile)

SpecCadence == InitCadence /\ [][NextCadence]_vars

\* The passes run before time t by a loop whose encoder is never touched:
\* one at the end of setup() and one every UPDATE_INTERVAL_US after it.
QuietPasses(t) == CeilDiv(t - SetupDoneMs * 1000, UPDATE_INTERVAL_US)

\* C13: at the start of every iteration of loop() the engine has run as
\* many passes as it has run by that time when no encoder or button event
\* occurs.
C13_PassesAsWhenQuiet == pc = "ui" => passes = QuietPasses(now)

\* ------------------------------------------------------------------------
\* Specification SpecBoot: setup() with valid and invalid bytes stored for
\* the four channels, then the loop with the encoder turned either way and
\* the button pressed.
\* ------------------------------------------------------------------------
HorizonBootMs == 26

\* Stored bytes: both ends of the valid range, the first invalid value and
\* the 255 of an EEPROM never written.
BootStored ==
  { (0 :> 0 @@ 1 :> 11 @@ 2 :> 12 @@ 3 :> 255),
    (0 :> 11 @@ 1 :> 0 @@ 2 :> 5 @@ 3 :> 200),
    AllAt(255) }

BootProfile ==
  [ pinA |-> Pins, pinB |-> Pins, button |-> Pins, pinEvery |-> 30,
    pots |-> {AllAt(PotMid)}, potEvery |-> 1,
    dts |-> {UPDATE_INTERVAL_US}, writeUs |-> 0, drawUs |-> 0,
    targets |-> {0, 255},
    jitterEvery |-> 1000, gravityEvery |-> 1000,
    microsZeroAt |-> 0,
    endTime |-> EndTime(HorizonBootMs) ]

InitBoot ==
  /\ \E stored \in BootStored : Setup(stored, SeedLow, TRUE)
  /\ pots \in BootProfile.pots

NextBoot == LoopUI(BootProfile) \/ LoopLFO(BootProfile)

SpecBoot == InitBoot /\ [][NextBoot]_vars

\* C15: setup() applies a stored byte in 0..11 to its channel and leaves the
\* channel on Triangle for a stored byte above 11, each channel by itself;
\* the stored bytes stay as they are until a detent is accepted, and a
\* detent rewrites the selected channel's byte only.
C15_InvalidStoredIgnored ==
  /\ [](lastEncoderChange = 0 =>
         \A i \in Channels :
           waveType[i] = IF eeprom[i] \in 0 .. 11 THEN eeprom[i] ELSE Triangle)
  /\ [][\A i \in Channels :
          eeprom'[i] # eeprom[i] =>
            i = selectedLFO /\ lastEncoderChange' # lastEncoderChange]_vars

C15_Witness ==
  /\ passes >= 2
  /\ lastEncoderChange = 0
  /\ selectedLFO = 1
  /\ eeprom[0] = 11 /\ waveType[0] = 11
  /\ eeprom[2] = 5 /\ waveType[2] = 5
  /\ eeprom[3] = 200 /\ waveType[3] = Triangle

\* C16: in every state the bytes in the EEPROM are the ones from which
\* setup() restores the present waveType of every channel.
C16_RestartRestores == \A i \in Channels : LoadWave(eeprom[i]) = waveType[i]

C16_Witness ==
  /\ pc = "ui"
  /\ selectedLFO = 1
  /\ waveType = (0 :> 1 @@ 1 :> 10 @@ 2 :> 0 @@ 3 :> 0)
  /\ eeprom = (0 :> 1 @@ 1 :> 10 @@ 2 :> 12 @@ 3 :> 255)

\* C17: waveType[i] is in 0..11 on every channel and selectedLFO is in 0..3,
\* whatever bytes were stored and however the encoder is used.
C17_KindsAndChannelInRange ==
  /\ \A i \in Channels : waveType[i] \in 0 .. 11
  /\ selectedLFO \in 0 .. 3

C17_Witness ==
  /\ eeprom[2] = 255 /\ eeprom[3] = 255
  /\ waveType[0] = 11 /\ eeprom[0] = 11
  /\ waveType[1] = 1
  /\ selectedLFO = 1

RECURSIVE TurnedTimes(_, _, _)
TurnedTimes(k, currentB, n) ==
  IF n = 0 THEN k ELSE TurnedTimes(Turned(k, currentB), currentB, n - 1)

TurnsReturn ==
  \A k \in 0 .. 11 :
    /\ Turned(Turned(k, "HIGH"), "LOW") = k
    /\ Turned(Turned(k, "LOW"), "HIGH") = k
    /\ TurnedTimes(k, "HIGH", 12) = k
    /\ TurnedTimes(k, "LOW", 12) = k

\* C18: an accepted detent sets the selected channel's waveform k to
\* (k + 1) mod 12 clockwise (pin B high) and to (k - 1) mod 12
\* counter-clockwise and changes no other waveform; an accepted press sets
\* the selected channel s to (s + 1) mod 4; without a detent no waveform
\* changes and without a press the selected channel stays.  A turn one way
\* and back, and twelve turns one way, return to the waveform they began at.
C18_DetentAndPress ==
  [][LET detent == lastEncoderChange' # lastEncoderChange
         press == lastButtonChange' # lastButtonChange /\ lastButton' = "LOW"
         k == waveType[selectedLFO]
     IN /\ TurnsReturn
        /\ waveType' = IF detent
                       THEN [waveType EXCEPT ![selectedLFO] =
                               IF lastB' = "HIGH" THEN (k + 1) % 12 ELSE (k - 1) % 12]
                       ELSE waveType
        /\ selectedLFO' = IF press THEN (selectedLFO + 1) % 4 ELSE selectedLFO]_vars

C18_Witness ==
  /\ pc = "lfo"
  /\ lastEncoderChange = now \div 1000 /\ lastB = "LOW"
  /\ lastButtonChange = now \div 1000 /\ lastButton = "LOW"
  /\ eeprom = (0 :> 11 @@ 1 :> 11 @@ 2 :> 12 @@ 3 :> 255)
  /\ waveType[0] = 11
  /\ selectedLFO = 1

\* ------------------------------------------------------------------------
\* More properties of Spec
\* ------------------------------------------------------------------------
\* Everything the engine keeps for channel j.
ChannelState(e, j) ==
  << e.lfoIndex[j], e.sineIndex[j], e.randomSlope[j], e.wonkyTri[j], e.ratchetTri[j],
     e.swarmBreathIndex[j], e.swarmTriIndex1[j], e.swarmTriIndex2[j],
     e.swarmTriIndex3[j], e.pendulumOscA[j], e.pendulumOscB[j], e.gravityWells[j] >>

\* C19: run from any state between two passes, the update of channel i,
\* under the waveform kind the channel has and any of its random draws,
\* leaves the state of the three other channels as it was, and the output
\* computation of the pass changes no channel's state and no other channel's
\* output register.
C19_OwnStateOnly ==
  \A ub \in CastChoices(Engine) :
    /\ \A i \in Channels :
         \A d \in ChannelDraws(Engine, i, lfoFreq[i], now, MainProfile) :
           \A j \in Channels \ {i} :
             /\ ChannelState(UpdateChannel(Engine, i, d, now \div 1000, ub), j)
                  = ChannelState(Engine, j)
             /\ UpdateChannel(Engine, i, d, now \div 1000, ub).OCR = OCR
    /\ \A j \in Channels :
         ChannelState(LoadOutputs(Engine, ub), j) = ChannelState(Engine, j)

C19_Witness ==
  /\ passes >= 2
  /\ ranAs[0] = AMSine /\ ranAs[1] = FMTri
  /\ fmSource[1] = 0 /\ amSource[0] = 3
  /\ lfoIndex[0] > 0 /\ lfoIndex[1] > 0 /\ lfoIndex[3] > 0

\* ------------------------------------------------------------------------
\* Specification SpecDisplay: setup() with the display found or not found,
\* then the loop, polled every 2 ms, past two screensaver timeouts, with
\* the encoder turned and pressed at the start and again after the first
\* timeout.
\* ------------------------------------------------------------------------
HorizonDisplayMs == 10100

DisplayProfile ==
  [ pinA |-> Pins, pinB |-> Released, button |-> Pins, pinEvery |-> 12600,
    pots |-> {AllAt(PotMid)}, potEvery |-> 1,
    dts |-> {5 * UPDATE_INTERVAL_US}, writeUs |-> 0, drawUs |-> 0,
    targets |-> {0, 255},
    jitterEvery |-> 100000, gravityEvery |-> 100000,
    microsZeroAt |-> 0,
    endTime |-> EndTime(HorizonDisplayMs) ]

InitDisplay ==
  /\ \E oled \in BOOLEAN : Setup(AllAt(Triangle), SeedLow, oled)
  /\ pots \in DisplayProfile.pots

NextDisplay == LoopUI(DisplayProfile) \/ LoopLFO(DisplayProfile)

SpecDisplay == InitDisplay /\ [][NextDisplay]_vars

\* C20: with oledWorking false no iteration of loop() issues a display call
\* and the panel flag is never switched; with or without a display, every
\* successful tick check runs one engine pass, whose samples are those the
\* engine computes from its own state, the pots and the clock.
C20_DisplayFailureKeepsSamples ==
  [][/\ ~oledWorking => displayOps' = << >> /\ oledActive' = oledActive
     /\ oledWorking' = oledWorking
     /\ pc = "lfo" /\ TickDue(micros(now, DisplayProfile.microsZeroAt),
                              micros(previousMicros, DisplayProfile.microsZeroAt)) =>
          /\ passes' = passes + 1
          /\ OCR' = EnginePass(Engine, pots', NoDraws, now \div 1000, "wrap").OCR]_vars

C20_Witness ==
  /\ pc = "ui"
  /\ ~oledWorking
  /\ passes > 2500
  /\ lastEncoderChange > SetupDoneMs + UI_TIMEOUT_MS
  /\ lastButtonChange > SetupDoneMs + UI_TIMEOUT_MS
  /\ selectedLFO = 1
  /\ waveType[0] = Square
  /\ lfoIndex[0] > 0

\* C21: with a working display, after every pass through the checks of
\* loop() the panel is off exactly when more than UI_TIMEOUT_MS have elapsed
\* since the last encoder use; an encoder pin change or an accepted press
\* is such a use, which restarts the timeout and leaves the panel on, and
\* nothing else is; a redraw is issued only with the panel on or after the
\* DISPLAYON of the same pass.
C21_OffAfterTimeoutOnly ==
  [][pc = "ui" /\ oledWorking =>
       LET currentTime == now \div 1000
           used == \/ lastA' # lastA \/ lastB' # lastB
                   \/ lastButtonChange' # lastButtonChange /\ lastButton' = "LOW"
       IN /\ ~oledActive' <=> currentTime - lastEncoderActivity' > UI_TIMEOUT_MS
          /\ lastEncoderActivity' = IF used THEN currentTime ELSE lastEncoderActivity
          /\ used => oledActive'
          /\ \A k \in DOMAIN displayOps' :
               displayOps'[k] = "display" =>
                 oledActive \/ \E j \in 1 .. k - 1 : displayOps'[j] = "DISPLAYON"]_vars

\* The panel is off for the second time, 5 s after the use that woke it.
C21_Witness ==
  /\ pc = "lfo"
  /\ oledWorking /\ ~oledActive /\ screensaverMode
  /\ displayOps = << "DISPLAYOFF" >>
  /\ lastEncoderActivity > SetupDoneMs + UI_TIMEOUT_MS
  /\ now \div 1000 - lastEncoderActivity \in UI_TIMEOUT_MS + 1 .. UI_TIMEOUT_MS + 2

\* The sample the modulation rule takes from source channel s in the
\* present state.
RuleSample(s) ==
  LET index == TableIndex(lfoIndex[s], "wrap")
  IN CASE waveType[s] = RandomSlope -> TruncDiv(randomSlope[s].currentValue, ValueOne)
       [] waveType[s] = Triangle -> triangleWave[index + 1]
       [] waveType[s] = Square -> squareWave[index + 1]
       [] waveType[s] = Sine -> sineWave[index + 1]
       [] OTHER -> triangleWave[index + 1]

\* Every phase is where its conversion to uint16_t is defined.
InCastRange == CastChoices(Engine) = {"wrap"}

\* C22: FM and AM read the same sample from source channel s: the truncated
\* currentValue of a Random Slope source, the source's own table at its
\* primary phase for Triangle, Square and Sine, and the Triangle table at
\* its primary phase for every other kind.  After a pass the frequency an
\* FM channel on 1..3 was run at is the one this sample gives, and the
\* output of an AM channel is the one its output function gives.
C22_ModulationSampleRule ==
  InCastRange =>
    \A i \in Channels :
      LET s == (i + 3) % 4
      IN /\ FMModValue(Engine, i, "wrap") = RuleSample(s)
         /\ AMModValue(Engine, i, "wrap") = RuleSample(s)
         /\ ranAs[i] = FMTri /\ i > 0 =>
              fmFreq[i] = FMFreq(lfoFreq[i], RuleSample(s))
         /\ ranAs[i] = AMSine => OCR[i] = getAMSineValue(Engine, i, "wrap")

\* An FM channel has read a TriSine source whose own output is another value.
C22_Witness ==
  /\ passes >= 2
  /\ InCastRange
  /\ ranAs[0] = TriSine /\ ranAs[1] = FMTri
  /\ OCR[0] # RuleSample(0)
  /\ fmFreq[1] = FMFreq(lfoFreq[1], RuleSample(0))
  /\ fmFreq[1] # lfoFreq[1]

\* C23: no step lowers the primary phase accumulator of any channel.
C23_PhaseNeverDecreases ==
  [][\A i \in Channels : lfoIndex'[i] >= lfoIndex[i]]_vars

\* ------------------------------------------------------------------------
\* Specification SpecPots: the loop with the four pots at neighbouring
\* readings at both ends and in the middle of the range, moved while the
\* loop runs.
\* ------------------------------------------------------------------------
HorizonPotsMs == 8

PotsProfile ==
  [ pinA |-> Released, pinB |-> Released, button |-> Released, pinEvery |-> 1,
    pots |-> { (0 :> 0 @@ 1 :> 1 @@ 2 :> 1022 @@ 3 :> 1023),
               (0 :> 1023 @@ 1 :> 512 @@ 2 :> 511 @@ 3 :> 0),
               (0 :> 256 @@ 1 :> 255 @@ 2 :> 768 @@ 3 :> 767) },
    potEvery |-> 4,
    dts |-> {UPDATE_INTERVAL_US}, writeUs |-> 0, drawUs |-> 0,
    targets |-> {0, 255},
    jitterEvery |-> 1000, gravityEvery |-> 1000,
    microsZeroAt |-> 0,
    endTime |-> EndTime(HorizonPotsMs) ]

InitPots ==
  /\ Setup(AllAt(Triangle), SeedLow, TRUE)
  /\ pots \in PotsProfile.pots

NextPots == LoopUI(PotsProfile) \/ LoopLFO(PotsProfile)

SpecPots == InitPots /\ [][NextPots]_vars

\* readFrequency over all readings: strictly increasing, from 0.05 Hz at 0
\* to 20 Hz at 1023.
PotMapIncreasing ==
  /\ \A r1 \in 0 .. 1023 : \A r2 \in r1 + 1 .. 1023 : readFrequency(r1) < readFrequency(r2)
  /\ readFrequency(0) = CentiHz(5)
  /\ readFrequency(1023) = CentiHz(2000)

\* C24: the mapping from the reading to Hz is strictly increasing with
\* 0.05 Hz at reading 0 and 20 Hz at reading 1023, and after every pass
\* each channel's frequency is the mapping of its pot's reading, within
\* [0.05, 20] and ordered as the readings are.
C24_FrequencyMap ==
  /\ PotMapIncreasing
  /\ passes > 0 =>
       \A i \in Channels :
         /\ lfoFreq[i] = readFrequency(pots[i])
         /\ lfoFreq[i] >= CentiHz(5) /\ lfoFreq[i] <= CentiHz(2000)
         /\ \A j \in Channels : pots[i] < pots[j] => lfoFreq[i] < lfoFreq[j]

C24_Witness ==
  /\ passes > 4
  /\ pots = (0 :> 256 @@ 1 :> 255 @@ 2 :> 768 @@ 3 :> 767)
  /\ lfoFreq[1] < lfoFreq[0] /\ lfoFreq[0] < lfoFreq[3] /\ lfoFreq[3] < lfoFreq[2]

\* ------------------------------------------------------------------------
\* Ratchet Triangle: the burst count and the lengths of bursts and pauses
\* (SpecRatchet).
\* ------------------------------------------------------------------------
\* A pass that runs channel i as Ratchet Triangle and ends its burst.
BurstEnds(i) ==
  /\ pc = "lfo" /\ passes' = passes + 1
  /\ waveType[i] = RatchetTri
  /\ ~ratchetTri[i].inPause /\ ratchetTri'[i].inPause

\* A pass that runs channel i as Ratchet Triangle and ends its pause.
PauseEnds(i) ==
  /\ pc = "lfo" /\ passes' = passes + 1
  /\ waveType[i] = RatchetTri
  /\ ratchetTri[i].inPause /\ ~ratchetTri'[i].inPause

\* C25: at the end of every burst burstCount is incremented and then compared
\* with maxBursts: from maxBursts on it is reset to 0, a new maxBursts in
\* 2..5 is drawn and the long pause is chosen, below it the short pause is
\* chosen; so the long pause is chosen at the end of exactly every
\* maxBursts-th burst since the previous long pause.
C25_LongPauseEveryMaxBursts ==
  [][ \A i \in Channels : BurstEnds(i) =>
        LET r == ratchetTri[i]
            q == ratchetTri'[i]
            incremented == r.burstCount + 1
            long == q.burstsDone = 0
        IN /\ IF incremented >= r.maxBursts
              THEN /\ q.burstCount = 0
                   /\ q.maxBursts \in 2 .. 5
                   /\ long
              ELSE /\ q.burstCount = incremented
                   /\ q.maxBursts = r.maxBursts
                   /\ ~long
           /\ long <=> r.burstsDone + 1 = r.maxBursts ]_vars

\* The burst that setup() started: none has ended since.
FirstBurst(r) == r.burstCount = 0 /\ r.burstsDone = 0 /\ ~r.afterLong

BurstTicks == 30 .. 129
FirstBurstTicks == 50 .. 149
PauseTicks == 10 .. 599

\* Every burst lasts 30 to 130 ticks and every pause 10 to 600 ticks, the
\* first burst after startup included.
C26_DwellAsStated ==
  [][ \A i \in Channels :
        /\ BurstEnds(i) => ratchetTri[i].ratchetCounter + 1 \in 30 .. 130
        /\ PauseEnds(i) => ratchetTri[i].pauseCounter + 1 \in 10 .. 600 ]_vars

\* C26: a channel kept on Ratchet Triangle counts every tick in the state it
\* is in and leaves the state on the tick that brings the counter to the
\* state's duration. The burst setup() started lasts 50 to 149 ticks, every
\* later burst 30 to 129 ticks and every pause 10 to 599 ticks.
C26_BoundedDwell ==
  [][ \A i \in Channels :
        (pc = "lfo" /\ passes' = passes + 1 /\ waveType[i] = RatchetTri) =>
          LET r == ratchetTri[i]
              q == ratchetTri'[i]
          IN IF r.inPause
             THEN IF q.inPause
                  THEN /\ q.pauseCounter = r.pauseCounter + 1
                       /\ q.pauseCounter < r.pauseDuration
                       /\ q.pauseDuration = r.pauseDuration
                  ELSE /\ r.pauseCounter + 1 = r.pauseDuration
                       /\ r.pauseDuration \in PauseTicks
                       /\ q.ratchetCounter = 0
                       /\ q.burstDuration \in BurstTicks
             ELSE IF ~q.inPause
                  THEN /\ q.ratchetCounter = r.ratchetCounter + 1
                       /\ q.ratchetCounter < r.burstDuration
                       /\ q.burstDuration = r.burstDuration
                  ELSE /\ r.ratchetCounter + 1 = r.burstDuration
                       /\ r.burstDuration \in
                            IF FirstBurst(r) THEN FirstBurstTicks ELSE BurstTicks
                       /\ q.pauseCounter = 0
                       /\ q.pauseDuration \in PauseTicks ]_vars

\* The burst setup() started has just ended on its 149th tick.
C26_Witness ==
  \E i \in Channels :
    /\ ranAs[i] = RatchetTri
    /\ ratchetTri[i].inPause /\ ratchetTri[i].pauseCounter = 0
    /\ ratchetTri[i].burstsDone = 1 /\ ~ratchetTri[i].afterLong
    /\ passes = 149

\* ------------------------------------------------------------------------
\* SpecRamp: channel 0 stores Random Slope, the encoder is left alone and
\* the pots stay where the first pass finds them, at about 5 Hz or fully
\* clockwise (20 Hz); every check of the loop is 400 us after the last.
\* ------------------------------------------------------------------------
HorizonRampMs == 110

RampProfile ==
  [ pinA |-> Released, pinB |-> Released, button |-> Released, pinEvery |-> 1,
    pots |-> {AllAt(PotBrisk), AllAt(PotHigh)}, potEvery |-> 1000000,
    dts |-> {UPDATE_INTERVAL_US}, writeUs |-> 0, drawUs |-> 0,
    targets |-> {0, 255},
    jitterEvery |-> 1000, gravityEvery |-> 1000,
    microsZeroAt |-> 0,
    endTime |-> EndTime(HorizonRampMs) ]

InitRamp ==
  /\ Setup((0 :> RandomSlope) @@ (1 :> Triangle) @@ (2 :> Triangle) @@ (3 :> Triangle),
           SeedLow, TRUE)
  /\ pots \in RampProfile.pots

NextRamp == LoopUI(RampProfile) \/ LoopLFO(RampProfile)

SpecRamp == InitRamp /\ [][NextRamp]_vars

\* C27: at a constant frequency and with a pass every 400 us, the step
\* computed at a retarget brings currentValue to targetValue exactly at the
\* next retarget: a retarget finds the target reached, and a pass that
\* reaches the target of a ramp is the last one before the next retarget is
\* due.
C27_TargetReachedAtRetarget ==
  [][ \A i \in Channels :
        (pc = "lfo" /\ passes' = passes + 1 /\ waveType[i] = RandomSlope) =>
          LET rs == randomSlope[i]
              rn == randomSlope'[i]
              retarget == rn.previousMillis # rs.previousMillis
              reached == /\ rn.currentValue = rn.targetValue
                         /\ rs.currentValue # rs.targetValue
          IN /\ retarget => rs.currentValue = rs.targetValue
             /\ (~retarget /\ reached)
                  => SlopeDue(rn, lfoFreq'[i], now' \div 1000) ]_vars

\* ------------------------------------------------------------------------
\* SpecChain: FM channels all round the ring, behind FM, table and Random
\* Slope sources; the pots fully clockwise or fully counter-clockwise.
\* ------------------------------------------------------------------------
HorizonChainMs == 21

ChainStored ==
  { (0 :> FMTri) @@ (1 :> FMTri) @@ (2 :> FMTri) @@ (3 :> FMTri),
    (0 :> FMTri) @@ (1 :> Sine) @@ (2 :> FMTri) @@ (3 :> RandomSlope),
    (0 :> Square) @@ (1 :> FMTri) @@ (2 :> RandomSlope) @@ (3 :> FMTri),
    (0 :> AMSine) @@ (1 :> AMSine) @@ (2 :> AMSine) @@ (3 :> AMSine),
    (0 :> AMSine) @@ (1 :> RandomSlope) @@ (2 :> AMSine) @@ (3 :> Sine) }

ChainProfile ==
  [ pinA |-> Released, pinB |-> Released, button |-> Released, pinEvery |-> 1,
    pots |-> {AllAt(PotLow), AllAt(PotHigh)}, potEvery |-> 20,
    dts |-> {UPDATE_INTERVAL_US}, writeUs |-> 0, drawUs |-> 0,
    targets |-> {0, 255},
    jitterEvery |-> 1000, gravityEvery |-> 1000,
    microsZeroAt |-> 0,
    endTime |-> EndTime(HorizonChainMs) ]

InitChain ==
  /\ \E stored \in ChainStored : Setup(stored, SeedLow, TRUE)
  /\ pots \in ChainProfile.pots

NextChain == LoopUI(ChainProfile) \/ LoopLFO(ChainProfile)

SpecChain == InitChain /\ [][NextChain]_vars

\* C28: a pass updates the channels in the order 0, 1, 2, 3, each update
\* complete before the next: FM on channel 0 runs at the frequency given by
\* channel 3's sample as the previous pass left it, FM on channel 1, 2 or 3
\* at the frequency given by its source's sample as this pass leaves it, and
\* each advances its own phase by that frequency's increment.
C28_FMReadsInLoopOrder ==
  [][ (pc = "lfo" /\ passes' = passes + 1 /\ InCastRange /\ InCastRange') =>
        \A i \in Channels : waveType[i] = FMTri =>
          LET before == RuleSample(FMModSource(i))
              after == RuleSample(FMModSource(i))'
          IN /\ fmFreq'[i] = FMFreq(lfoFreq'[i], IF i = 0 THEN before ELSE after)
             /\ lfoIndex'[i] = updateLFO(lfoIndex[i], fmFreq'[i]) ]_vars

\* Channel 0 has run FM at another frequency than the sample its Random
\* Slope source now holds would give, channel 2 at the frequency the sample
\* of its Sine source gives.
C28_Witness ==
  /\ passes >= 2
  /\ InCastRange
  /\ ranAs[0] = FMTri /\ ranAs[3] = RandomSlope
  /\ ranAs[2] = FMTri /\ ranAs[1] = Sine
  /\ fmFreq[0] # FMFreq(lfoFreq[0], RuleSample(3))
  /\ fmFreq[2] = FMFreq(lfoFreq[2], RuleSample(1))
  /\ fmFreq[2] # lfoFreq[2]

\* carrier * (1 + modulator), clamped to [-1, 1] and brought back to 0..255,
\* from the two table samples.
AMOutput(carrierValue, modValue) ==
  TruncDiv(constrain(Bipolar2(carrierValue) * (255 + Bipolar2(modValue)),
                     0 - 255 * 255, 255 * 255) + 255 * 255, 510) % 256

\* C29: the output of every AM channel, channel 0 included, is computed
\* after the four updates of the pass: from the carrier's phase and from the
\* source channel's sample as the pass leaves them.
C29_AMReadsAfterUpdates ==
  [][ (pc = "lfo" /\ passes' = passes + 1 /\ InCastRange') =>
        \A i \in Channels : waveType[i] = AMSine =>
          /\ lfoIndex'[i] = updateLFO(lfoIndex[i], lfoFreq'[i])
          /\ OCR'[i] = AMOutput(sineWave[TableIndex(lfoIndex'[i], "wrap") + 1],
                                RuleSample(AMModSource(i))') ]_vars

\* Channel 0 has run AM behind a Sine source on channel 3 that has left its
\* starting sample, and the modulation moves the output off the carrier.
C29_Witness ==
  /\ passes >= 2
  /\ InCastRange
  /\ ranAs[0] = AMSine /\ ranAs[3] = Sine
  /\ RuleSample(3) # sineWave[1]
  /\ OCR[0] = AMOutput(sineWave[TableIndex(lfoIndex[0], "wrap") + 1], RuleSample(3))
  /\ OCR[0] # sineWave[TableIndex(lfoIndex[0], "wrap") + 1]

\* ------------------------------------------------------------------------
\* SpecMix: the output stage applied to a TriSine channel 0 whose triangle
\* and sine phases stand at any two table positions.
\* ------------------------------------------------------------------------
MixIndexMax == 255

\* The OCR assignments of loop() with channel 0 at table positions a and b.
MixAt(a, b) ==
  /\ \E r \in {LoadOutputs([Engine EXCEPT !.lfoIndex[0] = a * PhaseOne,
                                           !.sineIndex[0] = b * PhaseOne], "wrap")} :
       EngineBecomes(r)
  /\ passes' = 1
  /\ UNCHANGED << uiVars, chosenRatio, oledWorking, pots, pc, displayOps,
                  now, previousMicros, elapsed >>

InitMix ==
  /\ Setup((0 :> TriSine) @@ (1 :> Triangle) @@ (2 :> Triangle) @@ (3 :> Triangle),
           SeedLow, TRUE)
  /\ pots = AllAt(PotMid)

\* Applied once, to the state setup() leaves.
NextMix ==
  /\ passes = 0
  /\ \E a \in 0 .. MixIndexMax, b \in 0 .. MixIndexMax : MixAt(a, b)

SpecMix == InitMix /\ [][NextMix]_vars

\* C30: for every pair of table samples tri and sin the TriSine output is
\* (tri - 127) - (sin - 127) / 2, the quotient rounded toward zero, clamped
\* to -127 .. 127, plus 127; the intermediate values fit 16 bits signed and
\* the sum lies in 0 .. 255, so the conversion to 8 bits leaves it as it is.
C30_TriSineOutput ==
  ranAs[0] = TriSine =>
    LET tri == triangleWave[TableIndex(lfoIndex[0], "wrap") + 1]
        sin == sineWave[TableIndex(sineIndex[0], "wrap") + 1]
        x == sin - 127
        half == IF x >= 0 THEN x \div 2 ELSE 0 - ((0 - x) \div 2)
        raw == (tri - 127) - half
        clamped == IF raw > 127 THEN 127 ELSE IF raw < 0 - 127 THEN 0 - 127 ELSE raw
    IN /\ raw \in (0 - 32768) .. 32767
       /\ clamped + 127 \in 0 .. 255
       /\ OCR[0] = clamped + 127

\* The output for the highest triangle sample against the lowest sine
\* sample: an odd negative half, and the upper clamp.
C30_Witness ==
  /\ ranAs[0] = TriSine
  /\ triangleWave[TableIndex(lfoIndex[0], "wrap") + 1] = 255
  /\ sineWave[TableIndex(sineIndex[0], "wrap") + 1] = 0
  /\ OCR[0] = 254

\* ------------------------------------------------------------------------
\* SpecPendulum: channels 0 and 2 store Pendulum, channel 1 FM and channel 3
\* AM Sine behind them; the pots are moved every few passes between fully
\* counter-clockwise, the middle, about 5 Hz and fully clockwise.
\* ------------------------------------------------------------------------
HorizonPendulumMs == 14

PendulumProfile ==
  [ pinA |-> Released, pinB |-> Released, button |-> Released, pinEvery |-> 1,
    pots |-> {AllAt(PotLow), AllAt(PotMid), AllAt(PotBrisk), AllAt(PotHigh)},
    potEvery |-> 9,
    dts |-> {UPDATE_INTERVAL_US}, writeUs |-> 0, drawUs |-> 0,
    targets |-> {0, 255},
    jitterEvery |-> 1000, gravityEvery |-> 1000,
    microsZeroAt |-> 0,
    endTime |-> EndTime(HorizonPendulumMs) ]

InitPendulum ==
  /\ Setup((0 :> Pendulum) @@ (1 :> FMTri) @@ (2 :> Pendulum) @@ (3 :> AMSine),
           SeedLow, TRUE)
  /\ pots \in PendulumProfile.pots

NextPendulum == LoopUI(PendulumProfile) \/ LoopLFO(PendulumProfile)

SpecPendulum == InitPendulum /\ [][NextPendulum]_vars

HorizonFrozenMs == 14

FrozenStored ==
  { (0 :> Pendulum) @@ (1 :> FMTri) @@ (2 :> RandomSlope) @@ (3 :> AMSine),
    (0 :> Pendulum) @@ (1 :> AMSine) @@ (2 :> RandomSlope) @@ (3 :> FMTri) }

FrozenProfile ==
  [ pinA |-> Pins, pinB |-> Pins, button |-> Released, pinEvery |-> 8,
    pots |-> {AllAt(PotMid), AllAt(PotHigh)}, potEvery |-> 1000,
    dts |-> {UPDATE_INTERVAL_US}, writeUs |-> 0, drawUs |-> 0,
    targets |-> {0, 255},
    jitterEvery |-> 1000, gravityEvery |-> 1000,
    microsZeroAt |-> 0,
    endTime |-> EndTime(HorizonFrozenMs) ]

InitFrozen ==
  /\ \E stored \in FrozenStored : Setup(stored, SeedLow, TRUE)
  /\ pots \in FrozenProfile.pots

NextFrozen == LoopUI(FrozenProfile) \/ LoopLFO(FrozenProfile)

SpecFrozen == InitFrozen /\ [][NextFrozen]_vars

\* The triangle sample at channel s's primary phase.
TriangleSample(s) == triangleWave[TableIndex(lfoIndex[s], "wrap") + 1]

\* C32: a pass leaves the primary phase of every channel it runs as Random
\* Slope or Pendulum as it was.  So for an FM or AM channel behind a
\* Pendulum source the sample it reads, the triangle sample at the source's
\* primary phase, is the same pass after pass while the source stays on
\* Pendulum: the FM channel runs at the frequency that sample gives, the AM
\* channel's output is its carrier modulated by that sample.
C32_PhaseLeftAlone ==
  [][ (pc = "lfo" /\ passes' = passes + 1) =>
        \A i \in Channels :
          /\ waveType[i] \in {RandomSlope, Pendulum} => lfoIndex'[i] = lfoIndex[i]
          /\ (waveType[FMModSource(i)] = Pendulum /\ InCastRange /\ InCastRange') =>
               LET s == FMModSource(i)
               IN /\ TriangleSample(s)' = TriangleSample(s)
                  /\ RuleSample(s)' = TriangleSample(s)
                  /\ waveType[i] = FMTri =>
                       fmFreq'[i] = FMFreq(lfoFreq'[i], TriangleSample(s))
                  /\ waveType[i] = AMSine =>
                       OCR'[i] = AMOutput(sineWave[TableIndex(lfoIndex'[i], "wrap") + 1],
                                          TriangleSample(s)) ]_vars

\* Channel 0 is back on Pendulum with the phase another kind left it, AM on
\* channel 1 has read the sample there, and the Random Slope on channel 2
\* has ramped with its phase still 0.
C32_Witness ==
  /\ InCastRange
  /\ ranAs[0] = Pendulum /\ waveType[0] = Pendulum
  /\ pendulumOscA[0] > 0
  /\ lfoIndex[0] > 0 /\ TriangleSample(0) > 0
  /\ ranAs[1] = AMSine
  /\ OCR[1] = AMOutput(sineWave[TableIndex(lfoIndex[1], "wrap") + 1], TriangleSample(0))
  /\ ranAs[2] = RandomSlope
  /\ randomSlope[2].currentValue > 0 /\ lfoIndex[2] = 0

\* ------------------------------------------------------------------------
\* SpecWonky: channel 0 or channel 3 stores Wonky Triangle and runs past
\* the end of the hold setup() drew and of the hold drawn after it; the
\* pots stay fully counter-clockwise, in the middle or fully clockwise.
\* ------------------------------------------------------------------------
HorizonWonkyMs == 46

WonkyProfile ==
  [ pinA |-> Released, pinB |-> Released, button |-> Released, pinEvery |-> 1,
    pots |-> {AllAt(PotLow), AllAt(PotMid), AllAt(PotHigh)}, potEvery |-> 1000,
    dts |-> {UPDATE_INTERVAL_US}, writeUs |-> 0, drawUs |-> 0,
    targets |-> {0, 255},
    jitterEvery |-> 1000, gravityEvery |-> 1000,
    microsZeroAt |-> 0,
    endTime |-> EndTime(HorizonWonkyMs) ]

InitWonky ==
  /\ \E c \in {0, 3} :
       Setup([i \in Channels |-> IF i = c THEN WonkyTri ELSE Triangle], SeedLow, TRUE)
  /\ pots \in WonkyProfile.pots

NextWonky == LoopUI(WonkyProfile) \/ LoopLFO(WonkyProfile)

SpecWonky == InitWonky /\ [][NextWonky]_vars

\* C33: every channel's freqMultiplier is within [0.6, 1.6] in every state.
\* A pass that runs the channel as Wonky Triangle and brings holdCounter to
\* holdDuration resets holdCounter to 0 and draws a holdDuration in 10..800
\* and a multiplier; every other step leaves the multiplier and the
\* holdDuration as they were.
C33_MultiplierHeldAndBounded ==
  /\ [](\A i \in Channels :
          wonkyTri[i].freqMultiplier \in Milli(600) .. Milli(1600))
  /\ [][ \A i \in Channels :
           LET w == wonkyTri[i]
               v == wonkyTri'[i]
               reaches == /\ pc = "lfo" /\ passes' = passes + 1
                          /\ waveType[i] = WonkyTri
                          /\ w.holdCounter + 1 >= w.holdDuration
           IN IF reaches
              THEN /\ v.holdCounter = 0
                   /\ v.holdDuration \in 10 .. 800
              ELSE /\ v.freqMultiplier = w.freqMultiplier
                   /\ v.holdDuration = w.holdDuration
                   /\ v.holdCounter \in {w.holdCounter, w.holdCounter + 1} ]_vars

\* A glitch has been cut down to 1.6 and the shortest hold drawn with it is
\* being counted.
C33_Witness ==
  \E i \in Channels :
    /\ ranAs[i] = WonkyTri
    /\ wonkyTri[i].freqMultiplier = Milli(1600)
    /\ wonkyTri[i].holdDuration = 10
    /\ wonkyTri[i].holdCounter >= 1

\* ------------------------------------------------------------------------
\* SpecWrap: the loop 71 minutes after reset, when micros() passes 2^32 - 1
\* and reads 0 again.  Time is counted from EpochMs milliseconds after the
\* reset, so that the counter reads 0 at time WrapZeroAt; the timestamps
\* setup() took lie EpochMs before the times they have in the other
\* specifications.  Until then every channel has run Triangle with its pot
\* fully counter-clockwise, a pass every 400 us, and the display has gone
\* off.  From here an iteration of loop() takes 200, 400 or 1000 us.
\* ------------------------------------------------------------------------
HorizonWrapMs == 9

\* 2^32 us are 4294967.296 ms.
EpochMs == 4294967 - (SetupDoneMs + 4)

WrapZeroAt == SetupDoneMs * 1000 + 4296

\* The passes run from the first check, SetupDoneMs after the reset, to the
\* check 400 us before the first of this specification.
WrapPasses == (EpochMs * 5 + 1) \div 2

WrapProfile ==
  [ pinA |-> Released, pinB |-> Released, button |-> Released, pinEvery |-> 1,
    pots |-> {AllAt(PotLow)}, potEvery |-> 1,
    dts |-> {UPDATE_INTERVAL_US \div 2, UPDATE_INTERVAL_US, 1000},
    writeUs |-> 0, drawUs |-> 0,
    targets |-> {0, 255},
    jitterEvery |-> 1000, gravityEvery |-> 1000,
    microsZeroAt |-> WrapZeroAt,
    endTime |-> EndTime(HorizonWrapMs) ]

InitWrap ==
  /\ waveType = AllAt(Triangle)
  /\ eeprom = AllAt(Triangle)
  /\ selectedLFO = 0
  /\ lfoFreq = AllAt(readFrequency(PotLow))
  /\ pots = AllAt(PotLow)
  /\ now = SetupDoneMs * 1000 + UPDATE_INTERVAL_US \div 2
  /\ previousMicros = now - UPDATE_INTERVAL_US
  /\ elapsed = UPDATE_INTERVAL_US
  /\ passes = WrapPasses
  /\ lfoIndex = AllAt(WrapPasses * Increment(readFrequency(PotLow)))
  /\ tableIndex = [i \in Channels |-> TableIndex(lfoIndex[i], "wrap")]
  /\ OCR = [i \in Channels |-> getWaveValue(Triangle, lfoIndex[i], "wrap")]
  /\ ranAs = waveType
  /\ lastEncoderActivity = 1000 - EpochMs
  /\ screensaverMode = TRUE
  /\ oledWorking = TRUE
  /\ oledActive = FALSE
  /\ lastA = "HIGH"
  /\ lastB = "HIGH"
  /\ lastButton = "HIGH"
  /\ lastEncoderChange = 0 - EpochMs
  /\ lastButtonChange = 0 - EpochMs
  /\ randomSlope = [i \in Channels |->
        [currentValue |-> 0, targetValue |-> 0, slopeStep |-> 0,
         previousMillis |-> 0 - EpochMs]]
  /\ wonkyTri = [i \in Channels |->
        [holdCounter |-> 0, freqMultiplier |-> MultOne,
         holdDuration |-> 100 + SeedLow.hold]]
  /\ ratchetTri = [i \in Channels |->
        [ ratchetCounter |-> 0, burstDuration |-> 50 + SeedLow.burst,
          pauseDuration |-> 100 + SeedLow.pause, pauseCounter |-> 0,
          inPause |-> FALSE, burstCount |-> 0, maxBursts |-> 2 + SeedLow.maxBursts,
          fastFreqMultiplier |-> FastFreqMultiplier(SeedLow.fast),
          burstsDone |-> 0, afterLong |-> FALSE ]]
  /\ sineIndex = AllAt(0)
  /\ chosenRatio = AllAt(ratios[SeedLow.ratio + 1])
  /\ swarmBreathIndex = AllAt(0)
  /\ swarmTriIndex1 = AllAt(0)
  /\ swarmTriIndex2 = AllAt(0)
  /\ swarmTriIndex3 = AllAt(0)
  /\ pendulumOscA = AllAt(0)
  /\ pendulumOscB = AllAt(0)
  /\ gravityWells = [i \in Channels |->
        [currentFreq |-> FreqOne, momentum |-> 0, dominantWell |-> 0]]
  /\ pc = "ui"
  /\ fmFreq = AllAt(0)
  /\ fmSource = AllAt(NumChannels)
  /\ amSource = AllAt(NumChannels)
  /\ rampStart = AllAt(0)
  /\ rampCut = AllAt(FALSE)
  /\ displayOps = << >>

NextWrap == LoopUI(WrapProfile) \/ LoopLFO(WrapProfile)

SpecWrap == InitWrap /\ [][NextWrap]_vars

\* C34: across the return of micros() from 2^32 - 1 to 0, a check of the
\* tick runs a pass exactly when at least 400 us have passed since the
\* check that ran the last one, and then runs one pass: none is lost to
\* the smaller reading and none is run twice.
C34_TickCheckAcrossWrap ==
  [][ pc = "lfo" =>
        IF now - previousMicros >= UPDATE_INTERVAL_US
        THEN /\ passes' = passes + 1
             /\ previousMicros' = now
             /\ lfoIndex' = [i \in Channels |-> updateLFO(lfoIndex[i], lfoFreq'[i])]
        ELSE /\ passes' = passes
             /\ previousMicros' = previousMicros
             /\ lfoIndex' = lfoIndex ]_vars

\* A pass has just run on a reading of micros() below the one of the pass
\* before it, taken 400 us or more earlier, before the counter's return to 0.
C34_Witness ==
  /\ pc = "ui"
  /\ passes > WrapPasses + 1
  /\ previousMicros >= WrapZeroAt
  /\ previousMicros - elapsed < WrapZeroAt
  /\ elapsed >= UPDATE_INTERVAL_US
  /\ ~Geq32(micros(previousMicros, WrapZeroAt),
            micros(previousMicros - elapsed, WrapZeroAt))

====
